---- MODULE Spec2Model ----
(***************************************************************************)
(* git-session.js: the session-lifecycle git automation command.           *)
(* One invocation = one short-lived process: it reads the event payload    *)
(* from standard input, runs one handler (--session-start, --session-end,  *)
(* --pre-edit) against the repository in the working directory, writes    *)
(* one JSON object to standard output and exits.                           *)
(***************************************************************************)
EXTENDS Integers, Sequences, FiniteSets, TLC

VARIABLES
    repo,        \* the directory / git repository the hooks act on
    now,         \* the wall clock, in ms (Date.now())
    last,        \* the process that ran last: its input, the commands it ran, its output
    history,     \* what the hosting agent collected from the processes before it
    edits,       \* steps the user and the remote took since the last process
    disk,        \* env-guard: the file the tool call is about, as it is on disk
    mem,         \* agent-memory: the hook process, its requests and the server
    home,        \* install.js: the settings file and the hooks directory under ~/.claude
    procs        \* hook processes observed one git command at a time

vars == <<repo, now, last, history, edits, disk, mem, home, procs>>

(***************************************************************************)
(* Bounds of the model.                                                    *)
(***************************************************************************)
MaxInvocations == 2   \* hook invocations in one session
MaxEdits == 1         \* steps of the user and the remote before an invocation
MaxFail == 1          \* git commands that fail for an outside reason (timeout, lock, ...) in one invocation

(***************************************************************************)
(* Program constants.                                                      *)
(***************************************************************************)
CHECKPOINT_COOLDOWN_MS == 30000
NumSuffixes == 26
DayMs == 86400000

Absent == "<absent>"            \* an optional JSON field that is not there (undefined)
NonString == "<non-string>"     \* a truthy JSON value that is not a string (5, true, [1])
Null == "<null>"                \* JavaScript null

RepoDir == "/tmp/repo"          \* the project directory (it exists)
MissingDir == "/tmp/gone"       \* a path that does not exist

Files == {"a.txt", "b.txt"}

NoFiles == {}
Commit(msg, files) == [msg |-> msg, files |-> files]

(***************************************************************************)
(* Text is a tuple of one-character strings wherever the program looks     *)
(* inside it (String.includes, RegExp.test).                               *)
(***************************************************************************)
OriginText == <<"o", "r", "i", "g", "i", "n">>
MyOriginText == <<"m", "y">> \o OriginText
UpstreamText == <<"u", "p">>

\* String.prototype.includes: sub occurs in s as a contiguous run
Includes(s, sub) ==
    \E i \in 1..(Len(s) - Len(sub) + 1) : SubSeq(s, i, i + Len(sub) - 1) = sub

(***************************************************************************)
(* The git repository, as far as the commands of git-session.js observe    *)
(* and change it.  head = "HEAD" stands for a detached HEAD; a branch      *)
(* that is checked out but has no commit yet (after git init) is not in    *)
(* DOMAIN commits.                                                         *)
(***************************************************************************)
DetachedHead == "HEAD"
InitialBranch == "master"

Branches(r) == DOMAIN r.commits \ {DetachedHead}
Born(r) == r.head \in DOMAIN r.commits

\* files some commit reachable from HEAD holds (tracked files)
Tracked(r) ==
    IF Born(r)
    THEN UNION {r.commits[r.head][i].files : i \in 1..Len(r.commits[r.head])}
    ELSE {}

\* git status --porcelain: one line per changed path, <<XY code, path>>;
\* ignored files are not listed
StatusLines(r) ==
    {<<IF f \in Tracked(r)
       THEN <<IF f \in r.staged THEN "M" ELSE " ", IF f \in r.unstaged THEN "M" ELSE " ">>
       ELSE IF f \in r.staged
            THEN <<"A", IF f \in r.unstaged THEN "M" ELSE " ">>
            ELSE <<"?", "?">>,
       f>> : f \in r.staged \cup r.unstaged}

Ok(out, r) == [success |-> TRUE, output |-> out, repo |-> r]
Failed(r) == [success |-> FALSE, output |-> {}, repo |-> r]

\* what `git <args>` does in directory cwd when nothing outside disturbs it
GitRun(r, cwd, args) ==
    LET cmd == args[1]
        arg == args[2]
    IN  IF cwd # RepoDir THEN Failed(r)
        ELSE IF cmd = "init" THEN Ok({}, [r EXCEPT !.isRepo = TRUE])
        ELSE IF ~r.isRepo THEN Failed(r)
        ELSE CASE cmd = "rev-parse --git-dir" -> Ok({}, r)
               [] cmd = "config" -> Ok({}, r)
               [] cmd = "status --porcelain" -> Ok(StatusLines(r), r)
               [] cmd = "add -A" ->
                    Ok({}, [r EXCEPT !.staged = r.staged \cup r.unstaged, !.unstaged = {}])
               [] cmd = "commit -m" ->
                    IF r.staged = {} THEN Failed(r)
                    ELSE Ok({}, [r EXCEPT
                            !.commits = (r.head :> Append(IF Born(r) THEN r.commits[r.head] ELSE <<>>,
                                                          Commit(arg, r.staged))) @@ r.commits,
                            !.staged = {}])
               [] cmd = "rev-parse --abbrev-ref HEAD" ->
                    IF Born(r) THEN Ok(r.head, r) ELSE Failed(r)
               [] cmd = "remote" -> Ok(r.remotes, r)
               [] cmd = "pull --ff-only origin" ->
                    IF OriginText \in r.remotes /\ arg \in r.pushed /\ Born(r)
                    THEN IF r.ahead
                         THEN Ok("Updating", [r EXCEPT
                                 !.commits[r.head] = Append(@, Commit(<<"upstream">>, NoFiles)),
                                 !.ahead = FALSE])
                         ELSE Ok("Already up to date", r)
                    ELSE Failed(r)
               [] cmd = "rev-parse --verify" ->
                    IF arg \in DOMAIN r.commits THEN Ok({}, r) ELSE Failed(r)
               [] cmd = "checkout -b" ->
                    IF arg \in Branches(r) THEN Failed(r)
                    ELSE Ok({}, [r EXCEPT
                            !.commits = IF Born(r) THEN (arg :> r.commits[r.head]) @@ r.commits
                                        ELSE r.commits,
                            !.head = arg])
               [] cmd = "log --oneline --name-only -3" ->
                    IF Born(r) THEN Ok(Len(r.commits[r.head]), r) ELSE Failed(r)
               [] cmd = "push -u origin" ->
                    IF OriginText \in r.remotes /\ arg \in Branches(r)
                    THEN Ok({}, [r EXCEPT !.pushed = @ \cup {arg}])
                    ELSE Failed(r)
               [] OTHER -> Failed(r)

(***************************************************************************)
(* The process and its streams.  c.io holds CONFIG.verbose and what the    *)
(* process has written so far: err by console.error, out by console.log.   *)
(***************************************************************************)
\* a log that writes its line to standard output
logToStdout(msg, c) ==
    [c EXCEPT !.io.out = IF c.io.verbose THEN Append(@, msg) ELSE @]

\* if (CONFIG.verbose) console.error(`[git-session] ${msg}`)
log(msg, c) ==
    [c EXCEPT !.io.err = IF c.io.verbose THEN Append(@, msg) ELSE @]

\* console.error, whatever CONFIG.verbose says
consoleError(msg, c) == [c EXCEPT !.io.err = Append(@, msg)]

(***************************************************************************)
(* git(args, cwd): the command executor.  c carries the repository and the *)
(* commands run so far; `fail` names the call sites whose command fails    *)
(* for an outside reason (timeout after 10 s, lock, missing binary): such  *)
(* a call changes nothing and returns a non-success result, like any       *)
(* other failure.                                                          *)
(***************************************************************************)
\* the result e of the command, with the command added to the ones run so far
Logged(c, site, args, e) ==
    [success |-> e.success, output |-> e.output, repo |-> e.repo, io |-> c.io,
     cmds |-> Append(c.cmds, [site |-> site, cmd |-> args[1], ok |-> e.success,
                              arg |-> IF args[1] = "commit -m" THEN args[2][1] ELSE args[2],
                              output |-> e.output])]

\* execSync is synchronous: the process is suspended in it until the command
\* has ended.  When the process is followed one command at a time, c.io.seen
\* holds the results of the commands that have returned and c.io.fresh says
\* how many more may run now; the commands behind those have not started.
\* When the process is followed as a whole, every command runs (c.io.fresh
\* is AllCommands).
AllCommands == 0 - 1
Executed(c, site, args, cwd, fail) ==
    LET k == Len(c.cmds) IN
    IF k < Len(c.io.seen)
    THEN [success |-> c.io.seen[k + 1].success, output |-> c.io.seen[k + 1].output,
          repo |-> c.repo]
    ELSE IF c.io.fresh # AllCommands /\ k >= Len(c.io.seen) + c.io.fresh
    THEN Failed(c.repo)
    ELSE IF site \in fail THEN Failed(c.repo) ELSE GitRun(c.repo, cwd, args)

\* an executor that runs a failed command a second time
gitRetrying(c, site, args, cwd, fail) ==
    LET first == Logged(c, site, args, Executed(c, site, args, cwd, fail))
    IN  IF first.success THEN first
        ELSE Logged(first, site, args, Executed(first, site, args, cwd, fail))

git(c, site, args, cwd, fail) ==
    Logged(c, site, args, Executed(c, site, args, cwd, fail))

(***************************************************************************)
(* Repository Inspector.  Each returns the executor's record extended      *)
(* with the value the JavaScript function returns.                         *)
(***************************************************************************)
With(value, g) == [value |-> value, repo |-> g.repo, cmds |-> g.cmds, io |-> g.io]

\* .success
Succeeded(g) == With(g.success, g)

isGitRepo(c, site, cwd, fail) ==
    Succeeded(git(c, site, <<"rev-parse --git-dir", "">>, cwd, fail))

\* result.success ? result.output : null
OutputOrNull(g) == With(IF g.success THEN g.output ELSE Null, g)

getCurrentBranch(c, site, cwd, fail) ==
    OutputOrNull(git(c, site, <<"rev-parse --abbrev-ref HEAD", "">>, cwd, fail))

\* result.success && result.output.length > 0
NonEmptyOutput(g) == With(g.success /\ g.output # {}, g)

EmptyOutput(g) == With(g.success /\ g.output = {}, g)

\* hasChanges with the emptiness test the wrong way round
hasChangesInverted(c, site, cwd, fail) ==
    EmptyOutput(git(c, site, <<"status --porcelain", "">>, cwd, fail))

\* hasChanges that only looks at the success of the command
hasChangesAnyOutput(c, site, cwd, fail) ==
    Succeeded(git(c, site, <<"status --porcelain", "">>, cwd, fail))

hasChanges(c, site, cwd, fail) ==
    NonEmptyOutput(git(c, site, <<"status --porcelain", "">>, cwd, fail))

\* result.success && result.output.includes('origin')
IncludesOrigin(g) ==
    With(g.success /\ \E line \in g.output : Includes(line, OriginText), g)

hasRemote(c, site, cwd, fail) ==
    IncludesOrigin(git(c, site, <<"remote", "">>, cwd, fail))

\* `${currentBranch}` in a command line: null is written as the text null
Interpolate(v) == IF v = Null THEN "null" ELSE v

(***************************************************************************)
(* Change Summarizer.                                                      *)
(***************************************************************************)
\* a count that does not stop at the first letter found (if ... if, no else)
CountLinesNoElse(lines, letter, before) ==
    Cardinality({l \in lines : letter \in {l[1][1], l[1][2]}})

CountLines(lines, letter, before) ==
    Cardinality({l \in lines : /\ letter \in {l[1][1], l[1][2]}
                               /\ \A x \in before : x \notin {l[1][1], l[1][2]}})

\* parts.push(`${count} ${label}`) for a count above 0
Part(count, label) == IF count > 0 THEN <<<<count, label>>>> ELSE <<>>

Parts(lines) ==
    Part(CountLines(lines, "M", {}), "modified")
    \o Part(CountLines(lines, "A", {"M"}), "added")
    \o Part(CountLines(lines, "D", {"M", "A"}), "deleted")
    \o Part(CountLines(lines, "?", {"M", "A", "D"}), "new")

\* parts.join(', ') || 'Changes'
JoinedOrChanges(parts) == IF parts = <<>> THEN <<<<0, "Changes">>>> ELSE parts

Summarized(status) ==
    With(IF ~status.success THEN <<<<0, "Changes">>>> ELSE JoinedOrChanges(Parts(status.output)),
         status)

formatChangeSummary(c, site, cwd, fail) ==
    Summarized(git(c, site, <<"status --porcelain", "">>, cwd, fail))

(***************************************************************************)
(* Destructive-Command Classifier: the four regular expressions of         *)
(* handlePreEdit, matched the way RegExp.test matches them.                *)
(***************************************************************************)
WhiteSpace == {" ", "\t", "\n"}
UpperCase == <<"A", "B", "C", "D", "E", "F", "G", "H", "I", "J", "K", "L", "M",
               "N", "O", "P", "Q", "R", "S", "T", "U", "V", "W", "X", "Y", "Z">>
LowerCase == <<"a", "b", "c", "d", "e", "f", "g", "h", "i", "j", "k", "l", "m",
               "n", "o", "p", "q", "r", "s", "t", "u", "v", "w", "x", "y", "z">>
Digits == {"0", "1", "2", "3", "4", "5", "6", "7", "8", "9"}

Lower(ch) ==
    IF \E i \in 1..26 : UpperCase[i] = ch
    THEN LowerCase[CHOOSE i \in 1..26 : UpperCase[i] = ch]
    ELSE ch

\* \w
IsWord(ch) ==
    \/ \E i \in 1..26 : ch \in {UpperCase[i], LowerCase[i]}
    \/ ch \in Digits
    \/ ch = "_"

\* \b in front of position i, where s[i] is a word character
BoundaryBefore(s, i) == i = 1 \/ ~IsWord(s[i - 1])

\* the literal lit stands at position i of s (ignoreCase: the /i flag)
LitAt(s, i, lit, ignoreCase) ==
    /\ i >= 1
    /\ i + Len(lit) - 1 <= Len(s)
    /\ \A k \in 1..Len(lit) :
          IF ignoreCase THEN Lower(s[i + k - 1]) = Lower(lit[k]) ELSE s[i + k - 1] = lit[k]

\* \s at position i
SpaceAt(s, i) == i >= 1 /\ i <= Len(s) /\ s[i] \in WhiteSpace

\* \s+ from position i: the positions right after one or more white-space characters
AfterSpaces(s, i) ==
    {p \in (i + 1)..(Len(s) + 1) : \A q \in i..(p - 1) : SpaceAt(s, q)}

\* /\brm\s+(-rf?|--recursive)?\s/i
RmPattern(s) ==
    \E i \in 1..Len(s) :
       /\ BoundaryBefore(s, i)
       /\ LitAt(s, i, <<"r", "m">>, TRUE)
       /\ \E p \in AfterSpaces(s, i + 2) :
             \/ LitAt(s, p, <<"-", "r", "f">>, TRUE) /\ SpaceAt(s, p + 3)
             \/ LitAt(s, p, <<"-", "r">>, TRUE) /\ SpaceAt(s, p + 2)
             \/ /\ LitAt(s, p, <<"-", "-", "r", "e", "c", "u", "r", "s", "i", "v", "e">>, TRUE)
                /\ SpaceAt(s, p + 11)
             \/ SpaceAt(s, p)

\* /\bgit\s+(reset|revert|checkout|clean)/i
GitPattern(s) ==
    \E i \in 1..Len(s) :
       /\ BoundaryBefore(s, i)
       /\ LitAt(s, i, <<"g", "i", "t">>, TRUE)
       /\ \E p \in AfterSpaces(s, i + 3) :
             \/ LitAt(s, p, <<"r", "e", "s", "e", "t">>, TRUE)
             \/ LitAt(s, p, <<"r", "e", "v", "e", "r", "t">>, TRUE)
             \/ LitAt(s, p, <<"c", "h", "e", "c", "k", "o", "u", "t">>, TRUE)
             \/ LitAt(s, p, <<"c", "l", "e", "a", "n">>, TRUE)

\* /\bmv\s+/
MvPattern(s) ==
    \E i \in 1..Len(s) :
       /\ BoundaryBefore(s, i)
       /\ LitAt(s, i, <<"m", "v">>, FALSE)
       /\ AfterSpaces(s, i + 2) # {}

\* />\s*[^|]/
RedirectPattern(s) ==
    \E i \in 1..Len(s) :
       /\ s[i] = ">"
       /\ \E p \in {i + 1} \cup AfterSpaces(s, i + 1) : p <= Len(s) /\ s[p] # "|"

\* the pattern list without the redirect pattern
isDestructiveNoRedirect(cmd) == RmPattern(cmd) \/ GitPattern(cmd) \/ MvPattern(cmd)

\* destructivePatterns.some(p => p.test(cmd))
isDestructive(cmd) ==
    RmPattern(cmd) \/ GitPattern(cmd) \/ MvPattern(cmd) \/ RedirectPattern(cmd)

(***************************************************************************)
(* Hook input and Response Formatter.                                      *)
(***************************************************************************)
\* JSON.parse of standard input; nothing or unparseable text gives {}
EmptyInput ==
    [isNull |-> FALSE, cwd |-> Absent, reason |-> Absent, tool_name |-> Absent,
     tool_input |-> [command |-> <<>>, file_path |-> Absent]]

\* readHookInput that keeps what it could read of unparseable text
readHookInputLenient(stdin) ==
    IF stdin.kind = "empty" THEN EmptyInput
    ELSE IF stdin.kind = "null" THEN [EmptyInput EXCEPT !.isNull = TRUE]
    ELSE stdin.value

readHookInput(stdin) ==
    IF stdin.kind \in {"empty", "malformed"} THEN EmptyInput
    ELSE IF stdin.kind = "null" THEN [EmptyInput EXCEPT !.isNull = TRUE]
    ELSE stdin.value

getWorkingDir(hookInput) == IF hookInput.cwd = Absent THEN RepoDir ELSE hookInput.cwd

\* fs.existsSync
existsSync(dir) == dir = RepoDir

NoMessage == <<>>

\* outputResult without its PreToolUse branch: every event gets the flat object
outputResultFlat(eventName, systemMessage, c) ==
    [repo |-> c.repo, cmds |-> c.cmds, exit |-> 0, stderr |-> c.io.err,
     stdout |-> Append(c.io.out, [systemMessage |-> systemMessage, hookSpecificOutput |-> {}])]

\* console.log(JSON.stringify(out)); process.exit(0)
outputResult(eventName, systemMessage, c) ==
    [repo |-> c.repo, cmds |-> c.cmds, exit |-> 0, stderr |-> c.io.err,
     stdout |-> Append(c.io.out,
                       IF eventName = "PreToolUse"
                       THEN [systemMessage |-> NoMessage,
                             hookSpecificOutput |->
                                 {[hookEventName |-> "PreToolUse",
                                   permissionDecision |-> "allow",
                                   additionalContext |-> systemMessage]}]
                       ELSE [systemMessage |-> systemMessage, hookSpecificOutput |-> {}])]

\* an exception nothing catches: node prints the stack to stderr and exits 1
Uncaught(c) ==
    [repo |-> c.repo, cmds |-> c.cmds, exit |-> 1, stdout |-> c.io.out,
     stderr |-> Append(c.io.err, <<"TypeError">>)]

EmptyObject == [systemMessage |-> NoMessage, hookSpecificOutput |-> {}]

(***************************************************************************)
(* The handlers.  A handler is a chain of steps; each step is an operator  *)
(* that receives what the steps before it produced (the repository and the *)
(* commands run so far, the values read) and ends with outputResult or     *)
(* hands over to the next step.                                            *)
(***************************************************************************)
\* the process before its first git command
Started(r0, CONFIG) ==
    [repo |-> r0, cmds |-> <<>>,
     io |-> [verbose |-> CONFIG.verbose, err |-> <<>>, out |-> <<>>,
             seen |-> IF "seen" \in DOMAIN CONFIG THEN CONFIG.seen ELSE <<>>,
             fresh |-> IF "fresh" \in DOMAIN CONFIG THEN CONFIG.fresh ELSE AllCommands]]

(***************************************************************************)
(* Session End Handler.                                                    *)
(***************************************************************************)
\* a SessionEnd that reports its push in a systemMessage
PushWhenRemoteReporting(CONFIG, remote, currentBranch, cwd, fail) ==
    IF remote.value /\ currentBranch \notin CONFIG.protectedBranches
    THEN outputResult("SessionEnd", <<<<"Pushed", currentBranch>>>>,
                      git(remote, "e_push", <<"push -u origin", Interpolate(currentBranch)>>,
                          cwd, fail))
    ELSE outputResult("SessionEnd", NoMessage, remote)

\* ... && !CONFIG.protectedBranches.includes(currentBranch) => git push
PushWhenRemote(CONFIG, remote, currentBranch, cwd, fail) ==
    outputResult("SessionEnd", NoMessage,
                 IF remote.value /\ currentBranch \notin CONFIG.protectedBranches
                 THEN git(log(<<"Pushing to origin/", currentBranch>>, remote), "e_push",
                          <<"push -u origin", Interpolate(currentBranch)>>, cwd, fail)
                 ELSE remote)

\* a handler that goes on to the push whether or not the commit succeeded
AfterCommitPushAnyway(CONFIG, commitResult, currentBranch, cwd, fail) ==
    IF ~CONFIG.autoPush
    THEN outputResult("SessionEnd", NoMessage, log(<<"Committed">>, commitResult))
    ELSE PushWhenRemote(CONFIG,
                        hasRemote(log(<<"Committed">>, commitResult), "e_remote", cwd, fail),
                        currentBranch, cwd, fail)

\* commit failed: return; CONFIG.autoPush && hasRemote(cwd) && ...
AfterCommit(CONFIG, commitResult, currentBranch, cwd, fail) ==
    IF ~commitResult.success
    THEN outputResult("SessionEnd", NoMessage, log(<<"Commit failed">>, commitResult))
    ELSE IF ~CONFIG.autoPush
         THEN outputResult("SessionEnd", NoMessage, log(<<"Committed">>, commitResult))
    ELSE PushWhenRemote(CONFIG,
                        hasRemote(log(<<"Committed">>, commitResult), "e_remote", cwd, fail),
                        currentBranch, cwd, fail)

\* git add -A; git commit -m "Claude session end: ${changeSummary}..."
StageAndCommit(CONFIG, changeSummary, currentBranch, cwd, fail) ==
    AfterCommit(CONFIG,
                git(git(changeSummary, "e_add", <<"add -A", "">>, cwd, fail), "e_commit",
                    <<"commit -m", <<"Claude session end:", changeSummary.value>>>>,
                    cwd, fail),
                currentBranch, cwd, fail)

\* const changeSummary = formatChangeSummary(cwd)
CommitChanges(CONFIG, currentBranch, cwd, fail) ==
    StageAndCommit(CONFIG, formatChangeSummary(currentBranch, "e_summary", cwd, fail),
                   currentBranch.value, cwd, fail)

\* if (!hasChanges(cwd)) return; const currentBranch = getCurrentBranch(cwd)
EndWhenChanges(CONFIG, changes, cwd, fail) ==
    IF ~changes.value
    THEN outputResult("SessionEnd", NoMessage, log(<<"No changes to commit">>, changes))
    ELSE CommitChanges(CONFIG, getCurrentBranch(changes, "e_branch", cwd, fail), cwd, fail)

\* if (!isGitRepo(cwd)) return
EndInRepo(CONFIG, isRepo, cwd, fail) ==
    IF ~isRepo.value
    THEN outputResult("SessionEnd", NoMessage, log(<<"Not a git repo - skipping">>, isRepo))
    ELSE EndWhenChanges(CONFIG, hasChanges(isRepo, "e_status", cwd, fail), cwd, fail)

handleSessionEnd(CONFIG, r0, hookInput, fail) ==
    IF hookInput.isNull THEN Uncaught(Started(r0, CONFIG))
    ELSE IF hookInput.reason = "clear"
         THEN outputResult("SessionEnd", NoMessage,
                           log(<<"Skipping - context clear">>,
                               log(<<"Session end in", getWorkingDir(hookInput)>>,
                                   Started(r0, CONFIG))))
    ELSE EndInRepo(CONFIG,
                   isGitRepo(log(<<"Session end in", getWorkingDir(hookInput)>>,
                                 Started(r0, CONFIG)),
                             "e_isrepo", getWorkingDir(hookInput), fail),
                   getWorkingDir(hookInput), fail)

(***************************************************************************)
(* Pre-Edit Checkpoint Handler.  lastCheckpointTime is the module-level    *)
(* variable of the process that runs the handler.                          *)
(***************************************************************************)
destructiveTools == {"Edit", "Write", "NotebookEdit"}

\* the tool is Edit, Write or NotebookEdit, or Bash with a destructive command
Eligible(hookInput) ==
    \/ hookInput.tool_name \in destructiveTools
    \/ hookInput.tool_name = "Bash" /\ isDestructive(hookInput.tool_input.command)

\* path.basename; it throws a TypeError for an argument that is not a string
basename(p) ==
    CASE p = "/tmp/repo/src/a.txt" -> "a.txt"
      [] p = "b.txt" -> "b.txt"
      [] OTHER -> p

\* log(`Pre-edit checkpoint: ${toolName}`), and for a destructive Bash command
\* log(`Destructive bash command detected: ...`)
PreEditLogged(hookInput, c) ==
    IF hookInput.tool_name = "Bash" /\ isDestructive(hookInput.tool_input.command)
    THEN log(<<"Destructive bash command detected">>,
             log(<<"Pre-edit checkpoint:", hookInput.tool_name>>, c))
    ELSE log(<<"Pre-edit checkpoint:", hookInput.tool_name>>, c)

\* now - lastCheckpointTime < CHECKPOINT_COOLDOWN_MS
InCooldown(t, lastCheckpointTime) == t - lastCheckpointTime < CHECKPOINT_COOLDOWN_MS

\* what the process leaves: its result and its lastCheckpointTime
WithTimer(res, lastCheckpointTime) ==
    [repo |-> res.repo, exit |-> res.exit, stdout |-> res.stdout,
     stderr |-> res.stderr, lastCheckpointTime |-> lastCheckpointTime,
     cmds |-> [i \in 1..Len(res.cmds) |->
                 [site |-> res.cmds[i].site, cmd |-> res.cmds[i].cmd,
                  ok |-> res.cmds[i].ok, arg |-> res.cmds[i].arg]],
     seen |-> [i \in 1..Len(res.cmds) |->
                 [success |-> res.cmds[i].ok, output |-> res.cmds[i].output]]]

\* return outputResult('PreToolUse', {}) with the timer as it was
Skip(c, lastCheckpointTime) ==
    WithTimer(outputResult("PreToolUse", NoMessage, c), lastCheckpointTime)

\* a handler that records the time whether or not the commit succeeded
RecordedRegardless(commitResult, shortFile, t, lastCheckpointTime) ==
    WithTimer(outputResult("PreToolUse", NoMessage, commitResult), t)

\* if (commitResult.success) lastCheckpointTime = now
Recorded(commitResult, shortFile, t, lastCheckpointTime) ==
    WithTimer(outputResult("PreToolUse", NoMessage,
                           IF commitResult.success
                           THEN log(<<"Checkpoint created before editing", shortFile>>,
                                    commitResult)
                           ELSE commitResult),
              IF commitResult.success THEN t ELSE lastCheckpointTime)

\* git add -A; git commit -m "Checkpoint before editing ${shortFile}..."
Checkpoint(c, shortFile, t, lastCheckpointTime, cwd, fail) ==
    Recorded(git(git(c, "p_add", <<"add -A", "">>, cwd, fail), "p_commit",
                 <<"commit -m", <<"Checkpoint before editing", shortFile>>>>, cwd, fail),
             shortFile, t, lastCheckpointTime)

\* if (!hasChanges(cwd)) return; targetFile ? path.basename(targetFile) : 'files'
CheckpointWhenChanges(changes, targetFile, t, lastCheckpointTime, cwd, fail) ==
    IF ~changes.value THEN Skip(changes, lastCheckpointTime)
    ELSE IF targetFile = NonString THEN WithTimer(Uncaught(changes), lastCheckpointTime)
    ELSE Checkpoint(changes, IF targetFile # Absent THEN basename(targetFile) ELSE "files",
                    t, lastCheckpointTime, cwd, fail)

\* if (!isGitRepo(cwd)) return; the rate limit
CheckpointInRepo(isRepo, targetFile, t, lastCheckpointTime, cwd, fail) ==
    IF ~isRepo.value THEN Skip(isRepo, lastCheckpointTime)
    ELSE IF InCooldown(t, lastCheckpointTime)
         THEN Skip(log(<<"Checkpoint cooldown - skipping">>, isRepo), lastCheckpointTime)
    ELSE CheckpointWhenChanges(hasChanges(isRepo, "p_status", cwd, fail), targetFile,
                               t, lastCheckpointTime, cwd, fail)

handlePreEdit(CONFIG, r0, hookInput, fail, t, lastCheckpointTime) ==
    IF ~CONFIG.checkpoint THEN Skip(Started(r0, CONFIG), lastCheckpointTime)
    ELSE IF hookInput.isNull THEN WithTimer(Uncaught(Started(r0, CONFIG)), lastCheckpointTime)
    ELSE IF ~Eligible(hookInput)
         THEN Skip(PreEditLogged(hookInput, Started(r0, CONFIG)), lastCheckpointTime)
    ELSE CheckpointInRepo(isGitRepo(PreEditLogged(hookInput, Started(r0, CONFIG)),
                                    "p_isrepo", getWorkingDir(hookInput), fail),
                          hookInput.tool_input.file_path, t, lastCheckpointTime,
                          getWorkingDir(hookInput), fail)

(***************************************************************************)
(* Branch Name Policy.                                                     *)
(***************************************************************************)
\* new Date().toISOString().slice(0, 10).replace(/-/g, ''): the UTC day of t
\* (the clock of the model runs through the first days after the epoch, so that
\* the numbers stay small; the program only takes differences and the UTC day)
Calendar == <<"19700101", "19700102", "19700103", "19700104", "19700105", "19700106">>
DateText(t) == Calendar[(t \div DayMs) + 1]

\* the base name without the configured prefix
baseNameOfNoPrefix(CONFIG, date) == "session-" \o date

baseNameOf(CONFIG, date) == CONFIG.branchPrefix \o "/session-" \o date

\* String.fromCharCode(97 + i)
fromCharCode97(i) == LowerCase[i + 1]

\* Math.random().toString(36).slice(2, 6): up to four characters of 0-9a-z;
\* 0.5 prints as "0.i" and gives "i"
RandomSuffixes == {"k3f9", "i"}

RECURSIVE SuffixSearch(_, _, _, _, _, _)
\* if (!exists) return branchName; otherwise the next i
NameOrNext(exists, i, branchName, baseName, cwd, fail, rnd) ==
    IF ~exists.success THEN With(branchName, exists)
    ELSE SuffixSearch(exists, i + 1, baseName, cwd, fail, rnd)

\* for (let i = 0; i < 26; i++) ...; the random fallback after the loop
SuffixSearch(c, i, baseName, cwd, fail, rnd) ==
    IF i >= NumSuffixes THEN With(baseName \o "-" \o rnd, c)
    ELSE NameOrNext(git(c, "s_verify_" \o fromCharCode97(i),
                        <<"rev-parse --verify", baseName \o "-" \o fromCharCode97(i)>>,
                        cwd, fail),
                    i, baseName \o "-" \o fromCharCode97(i), baseName, cwd, fail, rnd)

\* if (!baseExists) return baseName
BaseOrSuffixed(baseExists, baseName, cwd, fail, rnd) ==
    IF ~baseExists.success THEN With(baseName, baseExists)
    ELSE SuffixSearch(baseExists, 0, baseName, cwd, fail, rnd)

\* the test of the base name the wrong way round
BaseOrSuffixedInverted(baseExists, baseName, cwd, fail, rnd) ==
    IF baseExists.success THEN With(baseName, baseExists)
    ELSE SuffixSearch(baseExists, 0, baseName, cwd, fail, rnd)

generateBranchNameInverted(CONFIG, c, cwd, fail, date, rnd) ==
    BaseOrSuffixedInverted(git(c, "s_verify", <<"rev-parse --verify", baseNameOf(CONFIG, date)>>,
                               cwd, fail),
                           baseNameOf(CONFIG, date), cwd, fail, rnd)

generateBranchName(CONFIG, c, cwd, fail, date, rnd) ==
    BaseOrSuffixed(git(c, "s_verify", <<"rev-parse --verify", baseNameOf(CONFIG, date)>>,
                       cwd, fail),
                   baseNameOf(CONFIG, date), cwd, fail, rnd)

(***************************************************************************)
(* Session Start Handler.  `messages` is the array the steps push to; a    *)
(* message is kept as the tuple of its parts.                              *)
(***************************************************************************)
Noted(messages, c) == [messages |-> messages, repo |-> c.repo, cmds |-> c.cmds, io |-> c.io]

\* the initial commit without staging first
InitialCommitNoAdd(changes, cwd, fail) ==
    IF changes.value
    THEN git(changes, "s_commit", <<"commit -m", <<"Initial commit">>>>, cwd, fail)
    ELSE changes

\* if (hasChanges(cwd)) { git add -A; git commit -m "Initial commit" }
InitialCommit(changes, cwd, fail) ==
    IF changes.value
    THEN git(git(changes, "s_add", <<"add -A", "">>, cwd, fail), "s_commit",
             <<"commit -m", <<"Initial commit">>>>, cwd, fail)
    ELSE changes

\* git init; git config user.email; git config user.name
Initialized(c, cwd, fail) ==
    git(git(git(log(<<"Not a git repo - initializing">>, c), "s_init", <<"init", "">>, cwd, fail),
            "s_config_email", <<"config", "user.email">>, cwd, fail),
        "s_config_name", <<"config", "user.name">>, cwd, fail)

InitializeRepoNoAdd(c, cwd, fail) ==
    outputResult("SessionStart", <<<<"Initialized git repository in", cwd>>>>,
                 InitialCommitNoAdd(hasChanges(Initialized(c, cwd, fail), "s_status_init",
                                               cwd, fail),
                                    cwd, fail))

\* Step 0: not a repository -- init, identity, initial commit
InitializeRepo(c, cwd, fail) ==
    outputResult("SessionStart", <<<<"Initialized git repository in", cwd>>>>,
                 InitialCommit(hasChanges(Initialized(c, cwd, fail), "s_status_init", cwd, fail),
                               cwd, fail))

\* a pull that never leaves a message
PullOutcomeSilent(pullResult, currentBranch) == Noted(<<>>, pullResult)

\* Step 2: the message the pull leaves
PullOutcome(pullResult, currentBranch) ==
    IF pullResult.success /\ pullResult.output # "Already up to date"
    THEN Noted(<<<<"Pulled latest from", currentBranch>>>>,
               log(<<"Pulled updates">>, pullResult))
    ELSE IF ~pullResult.success
         THEN Noted(<<<<"Pull failed (may need manual merge).">>>>,
                    log(<<"Pull failed (may need manual merge)">>, pullResult))
    ELSE Noted(<<>>, pullResult)

\* ... && !hasChanges(cwd) => git pull --ff-only origin ${currentBranch}
PullWhenClean(changes, currentBranch, cwd, fail) ==
    IF changes.value THEN Noted(<<>>, changes)
    ELSE PullOutcome(git(log(<<"Pulling latest from origin/", currentBranch>>, changes), "s_pull",
                         <<"pull --ff-only origin", Interpolate(currentBranch)>>, cwd, fail),
                     currentBranch)

\* ... && hasRemote(cwd) && ...
PullWhenRemote(remote, currentBranch, cwd, fail) ==
    IF ~remote.value THEN Noted(<<>>, remote)
    ELSE PullWhenClean(hasChanges(remote, "s_status_pull", cwd, fail), currentBranch, cwd, fail)

\* Step 2: pull when auto-pull is on, a remote exists and the tree is clean
PullLatest(CONFIG, c, currentBranch, cwd, fail) ==
    IF ~CONFIG.autoPull THEN Noted(<<>>, c)
    ELSE PullWhenRemote(hasRemote(c, "s_remote", cwd, fail), currentBranch, cwd, fail)

\* a step 3 that reports the branch without looking at the checkout's result
CreatedRegardless(createResult, messages, newBranch, currentBranch) ==
    Noted(Append(messages, <<"Created working branch", newBranch, currentBranch>>), createResult)

\* if (createResult.success) messages.push(`Created working branch ...`)
Created(createResult, messages, newBranch, currentBranch) ==
    IF createResult.success
    THEN Noted(Append(messages, <<"Created working branch", newBranch, currentBranch>>),
               createResult)
    ELSE Noted(messages, log(<<"Could not create branch">>, createResult))

\* a step 3 that creates the branch and stays where it is (git branch ${newBranch})
CheckoutStaying(newBranch, messages, currentBranch, cwd, fail) ==
    LET g == git(log(<<"On protected branch - creating", newBranch.value>>, newBranch),
                 "s_checkout", <<"checkout -b", newBranch.value>>, cwd, fail)
    IN  Created([g EXCEPT !.repo.head = newBranch.repo.head], messages, newBranch.value,
                currentBranch)

\* git checkout -b ${newBranch}
Checkout(newBranch, messages, currentBranch, cwd, fail) ==
    Created(git(log(<<"On protected branch - creating", newBranch.value>>, newBranch),
                "s_checkout", <<"checkout -b", newBranch.value>>, cwd, fail),
            messages, newBranch.value, currentBranch)

\* step 3 left out: the session stays where it is
CreateWorkingBranchNever(CONFIG, c, messages, currentBranch, cwd, fail, date, rnd) ==
    Noted(messages, c)

\* Step 3: create the working branch when on a protected branch
CreateWorkingBranch(CONFIG, c, messages, currentBranch, cwd, fail, date, rnd) ==
    IF currentBranch \in CONFIG.protectedBranches
    THEN Checkout(generateBranchName(CONFIG, c, cwd, fail, date, rnd),
                  messages, currentBranch, cwd, fail)
    ELSE Noted(messages, c)

\* console.error(`[git-session] ${fullContext...}`); outputResult with fullContext
Emit(fullContext, c) ==
    outputResult("SessionStart", fullContext, consoleError(fullContext, c))

\* messages.push(gitContext); the systemMessage is messages.join('\n')
Context(dirty, messages, activeBranch, logged) ==
    Emit(Append(messages, <<"Branch:", Interpolate(activeBranch),
                            IF dirty.value THEN " (uncommitted changes)" ELSE "",
                            IF logged THEN "Recent commits:" ELSE "">>),
         dirty)

\* const statusSummary = hasChanges(cwd) ? ' (uncommitted changes)' : ''
ContextAfterLog(recentLog, messages, activeBranch, cwd, fail) ==
    Context(hasChanges(recentLog, "s_status_context", cwd, fail), messages, activeBranch,
            recentLog.success)

\* getCurrentBranch(cwd) || currentBranch; git log --oneline --name-only -3
ContextAfterBranch(active, messages, currentBranch, cwd, fail) ==
    ContextAfterLog(git(active, "s_log", <<"log --oneline --name-only -3", "">>, cwd, fail),
                    messages,
                    IF active.value # Null THEN active.value ELSE currentBranch,
                    cwd, fail)

\* Step 4: branch + recent log context
EmitContext(c, messages, currentBranch, cwd, fail) ==
    ContextAfterBranch(getCurrentBranch(c, "s_branch_active", cwd, fail),
                       messages, currentBranch, cwd, fail)

\* steps 3 and 4 after step 2 left p
Branched(CONFIG, p, currentBranch, cwd, fail, date, rnd) ==
    CreateWorkingBranch(CONFIG, p, p.messages, currentBranch, cwd, fail, date, rnd)

Contexted(q, currentBranch, cwd, fail) == EmitContext(q, q.messages, currentBranch, cwd, fail)

\* steps 2, 3 and 4
Proceed(CONFIG, c, currentBranch, cwd, fail, date, rnd) ==
    Contexted(Branched(CONFIG, PullLatest(CONFIG, c, currentBranch, cwd, fail),
                       currentBranch, cwd, fail, date, rnd),
              currentBranch, cwd, fail)

\* Step 1: ... && hasChanges(cwd) => the warning, and nothing else
WarnOrProceed(CONFIG, changes, currentBranch, cwd, fail, date, rnd) ==
    IF changes.value
    THEN outputResult("SessionStart", <<<<"Warning: Uncommitted changes on", currentBranch>>>>,
                      log(<<"Uncommitted changes on protected branch">>, changes))
    ELSE Proceed(CONFIG, changes, currentBranch, cwd, fail, date, rnd)

\* Step 1: CONFIG.protectedBranches.includes(currentBranch) && ...
StartOnBranch(CONFIG, branch, cwd, fail, date, rnd) ==
    IF branch.value \in CONFIG.protectedBranches
    THEN WarnOrProceed(CONFIG, hasChanges(branch, "s_status_protected", cwd, fail),
                       branch.value, cwd, fail, date, rnd)
    ELSE Proceed(CONFIG, branch, branch.value, cwd, fail, date, rnd)

\* log(`Current branch: ${currentBranch}`)
BranchLogged(branch) == log(<<"Current branch:", Interpolate(branch.value)>>, branch)

\* if (!isGitRepo(cwd)) initialize; const currentBranch = getCurrentBranch(cwd)
StartInDir(CONFIG, isRepo, cwd, fail, date, rnd) ==
    IF ~isRepo.value THEN InitializeRepo(isRepo, cwd, fail)
    ELSE StartOnBranch(CONFIG, BranchLogged(getCurrentBranch(isRepo, "s_branch", cwd, fail)),
                       cwd, fail, date, rnd)

\* log(`Session start in: ${cwd}`)
StartLogged(hookInput, c) == log(<<"Session start in:", getWorkingDir(hookInput)>>, c)

handleSessionStart(CONFIG, r0, hookInput, fail, t, rnd) ==
    IF hookInput.isNull THEN Uncaught(Started(r0, CONFIG))
    ELSE IF hookInput.reason = "clear"
         THEN outputResult("SessionStart", NoMessage,
                           log(<<"Skipping - context clear">>,
                               StartLogged(hookInput, Started(r0, CONFIG))))
    ELSE IF ~existsSync(getWorkingDir(hookInput))
         THEN outputResult("SessionStart", NoMessage,
                           log(<<"Directory doesn't exist:", getWorkingDir(hookInput)>>,
                               StartLogged(hookInput, Started(r0, CONFIG))))
    ELSE StartInDir(CONFIG,
                    isGitRepo(StartLogged(hookInput, Started(r0, CONFIG)),
                              "s_isrepo", getWorkingDir(hookInput), fail),
                    getWorkingDir(hookInput), fail, DateText(t), rnd)

(***************************************************************************)
(* CLI: one process.  The configuration is read from the environment when  *)
(* the module loads, lastCheckpointTime starts at 0, standard input is     *)
(* parsed, and the first recognised flag selects the handler.              *)
(***************************************************************************)
DefaultProtected == {"main", "master", "dev", "develop", "staging"}

\* the CONFIG objects the environments of the model produce
Config(autoPush, autoPull, checkpoint) ==
    [protectedBranches |-> DefaultProtected, branchPrefix |-> "work",
     autoPush |-> autoPush, autoPull |-> autoPull, checkpoint |-> checkpoint,
     verbose |-> FALSE]

\* GIT_HOOK_VERBOSE=true
Verbose(CONFIG) == [CONFIG EXCEPT !.verbose = TRUE]

DefaultConfig == Config(TRUE, TRUE, TRUE)

Configs ==
    {DefaultConfig, Config(FALSE, TRUE, TRUE), Config(TRUE, FALSE, TRUE),
     Config(TRUE, TRUE, FALSE)}

\* console.log of the usage text (no JSON); process.exit(0)
showHelp(r0) ==
    [repo |-> r0, cmds |-> <<>>, exit |-> 0, stdout |-> <<"usage">>, stderr |-> <<>>]

\* console.error('Unknown command...'); process.exit(1)
UnknownCommand(r0) ==
    [repo |-> r0, cmds |-> <<>>, exit |-> 1, stdout |-> <<>>,
     stderr |-> <<<<"Unknown command. Use --help for usage.">>>>]

InitialCheckpointTime == 0

\* a dispatch that looks at the mode flags before the help flag
MainModeBeforeHelp(args, CONFIG, stdin, r0, fail, t, rnd) ==
    LET hookInput == readHookInput(stdin)
    IN  IF "--session-start" \in args
        THEN WithTimer(handleSessionStart(CONFIG, r0, hookInput, fail, t, rnd),
                       InitialCheckpointTime)
        ELSE IF "--session-end" \in args
             THEN WithTimer(handleSessionEnd(CONFIG, r0, hookInput, fail), InitialCheckpointTime)
        ELSE IF "--pre-edit" \in args
             THEN handlePreEdit(CONFIG, r0, hookInput, fail, t, InitialCheckpointTime)
        ELSE IF "--help" \in args \/ "-h" \in args
             THEN WithTimer(showHelp(r0), InitialCheckpointTime)
        ELSE WithTimer(UnknownCommand(r0), InitialCheckpointTime)

Main(args, CONFIG, stdin, r0, fail, t, rnd) ==
    LET hookInput == readHookInput(stdin)
    IN  IF "--help" \in args \/ "-h" \in args
        THEN WithTimer(showHelp(r0), InitialCheckpointTime)
        ELSE IF "--session-start" \in args
             THEN WithTimer(handleSessionStart(CONFIG, r0, hookInput, fail, t, rnd),
                            InitialCheckpointTime)
        ELSE IF "--session-end" \in args
             THEN WithTimer(handleSessionEnd(CONFIG, r0, hookInput, fail), InitialCheckpointTime)
        ELSE IF "--pre-edit" \in args
             THEN handlePreEdit(CONFIG, r0, hookInput, fail, t, InitialCheckpointTime)
        ELSE WithTimer(UnknownCommand(r0), InitialCheckpointTime)

(***************************************************************************)
(* Which git commands fail for an outside reason.  A failure at a call     *)
(* site the run never reaches changes nothing, so the choices are built    *)
(* along the run: up to MaxFail reached sites, or every site (no git       *)
(* binary).                                                                *)
(***************************************************************************)
AllSites ==
    {"s_isrepo", "s_init", "s_config_email", "s_config_name", "s_status_init", "s_add",
     "s_commit", "s_branch", "s_status_protected", "s_remote", "s_status_pull", "s_pull",
     "s_verify", "s_checkout", "s_branch_active", "s_log", "s_status_context",
     "e_isrepo", "e_status", "e_branch", "e_summary", "e_add", "e_commit", "e_remote",
     "e_push", "p_isrepo", "p_status", "p_add", "p_commit"}
    \cup {"s_verify_" \o LowerCase[i] : i \in 1..NumSuffixes}

SitesOf(res) == {res.cmds[i].site : i \in 1..Len(res.cmds)}

FailChoices(Run(_), most) ==
    LET Grow[k \in 0..most] ==
            IF k = 0 THEN {{}}
            ELSE Grow[k - 1] \cup UNION {{F \cup {s} : s \in SitesOf(Run(F))} : F \in Grow[k - 1]}
    IN  Grow[most] \cup {AllSites}

(***************************************************************************)
(* Event payloads.                                                         *)
(***************************************************************************)
Object(cwd, reason, tool, command, path) ==
    [kind |-> "object",
     value |-> [isNull |-> FALSE, cwd |-> cwd, reason |-> reason, tool_name |-> tool,
                tool_input |-> [command |-> command, file_path |-> path]]]

NotObject(kind) == [kind |-> kind, value |-> EmptyInput]

RmRfCommand == <<"r", "m", " ", "-", "r", "f", " ", ".", "/", "x">>
EchoPipeCommand == <<"e", "c", "h", "o", " ", "h", "i", " ", "|", " ", "g", "r", "e", "p", " ", "x">>

SessionStdins ==
    {NotObject("empty"), NotObject("null"),
     Object(Absent, Absent, Absent, <<>>, Absent),
     Object(RepoDir, "clear", Absent, <<>>, Absent),
     Object(MissingDir, Absent, Absent, <<>>, Absent)}

PreEditStdins ==
    {NotObject("empty"), NotObject("null")}
    \cup {Object(Absent, Absent, tool, <<>>, path) :
            tool \in {"Edit", "Read"}, path \in {Absent, "/tmp/repo/src/a.txt", NonString}}
    \cup {Object(RepoDir, Absent, "Bash", command, Absent) :
            command \in {RmRfCommand, EchoPipeCommand}}
    \cup {Object(RepoDir, "clear", "Write", <<>>, "b.txt"),
          Object(MissingDir, Absent, "NotebookEdit", <<>>, Absent)}

(***************************************************************************)
(* State machine.                                                          *)
(***************************************************************************)
StartClock == 36000000     \* a clock long past the epoch: now - 0 exceeds the cooldown
EarlyClock == 29000        \* a clock that was reset to the epoch at boot

\* a directory that is no repository: files present, some matched by ignore rules
NoRepo(files, ignored) ==
    [isRepo |-> FALSE, head |-> InitialBranch, commits |-> <<>>,
     unstaged |-> files \ ignored, staged |-> {}, ignored |-> files \cap ignored,
     remotes |-> {}, pushed |-> {}, ahead |-> FALSE]

BaseCommit == Commit(<<"base">>, {"a.txt"})

ExistingRepo(head, sessions, remotes, unstaged, staged) ==
    [isRepo |-> TRUE, head |-> head,
     commits |-> [b \in {"main", "feature"} \cup sessions
                       \cup (IF head = DetachedHead THEN {DetachedHead} ELSE {})
                  |-> <<BaseCommit>>],
     unstaged |-> unstaged, staged |-> staged, ignored |-> {},
     remotes |-> remotes,
     pushed |-> IF OriginText \in remotes THEN {"main", "feature"} ELSE {},
     ahead |-> FALSE]

\* session branches left by the first n sessions of the first day
SessionNames(n) ==
    LET base == "work/session-" \o DateText(StartClock)
    IN  IF n = 0 THEN {} ELSE {base} \cup {base \o "-" \o LowerCase[i] : i \in 1..(n - 1)}

RemoteSets == {{}, {OriginText}, {MyOriginText, UpstreamText}}

InitialRepos ==
    {NoRepo(files, {"b.txt"}) : files \in SUBSET Files}
    \cup {NoRepo({"a.txt", "b.txt"}, {})}
    \cup {ExistingRepo(head, {}, remotes, unstaged, {}) :
            head \in {"main", "feature", DetachedHead},
            remotes \in RemoteSets, unstaged \in {{}, {"b.txt"}}}
    \cup {ExistingRepo("main", SessionNames(n), {OriginText}, {}, {}) :
            n \in {1, 2, NumSuffixes + 1}}
    \cup {ExistingRepo("feature", {}, {OriginText}, {"b.txt"}, {"a.txt"})}
    \cup {[NoRepo({"a.txt"}, {}) EXCEPT !.isRepo = TRUE]}    \* after `git init`, no commit yet

\* git-session.js looks at no file of env-guard and talks to no server
NoFile == [path |-> <<>>, state |-> "missing", lines |-> <<>>]
\* no hook process is being observed step by step
NoProcs == <<>>
\* the hooks themselves never touch ~/.claude
NoHome == [settings |-> "none", dest |-> "none", installs |-> 0, before |-> "none"]
NoMemory ==
    [hook |-> "none", alive |-> FALSE, pending |-> {}, issued |-> {}, received |-> {},
     stdout |-> <<>>, exit |-> 0, up |-> TRUE, runs |-> 0, reason |-> "<none>",
     destroyed |-> {}]

NoInvocation ==
    [args |-> {}, CONFIG |-> DefaultConfig, stdin |-> NotObject("empty"),
     fail |-> {}, at |-> 0, cmds |-> <<>>, stdout |-> <<>>, stderr |-> <<>>, exit |-> 0,
     lastCheckpointTime |-> 0, dirty |-> FALSE]

Init ==
    /\ repo \in InitialRepos
    /\ now \in {StartClock, EarlyClock}
    /\ last = NoInvocation
    /\ history = <<>>
    /\ edits = 0
    /\ disk = NoFile
    /\ mem = NoMemory
    /\ home = NoHome
    /\ procs = NoProcs

\* one process from start to exit, with its environment, payload and git failures
Invoke(args, configs, stdins, fails) ==
    /\ last = NoInvocation
    /\ Len(history) < MaxInvocations
    /\ \E CONFIG \in configs, stdin \in stdins, rnd \in RandomSuffixes :
         LET Run(F) == Main(args, CONFIG, stdin, repo, F, now, rnd)
         IN  \E fail \in FailChoices(Run, fails) :
                \E res \in {Run(fail)} :
                    /\ repo' = res.repo
                    /\ last' = [args |-> args, CONFIG |-> CONFIG, stdin |-> stdin,
                                fail |-> fail, at |-> now, cmds |-> res.cmds,
                                stdout |-> res.stdout, stderr |-> res.stderr,
                                exit |-> res.exit,
                                lastCheckpointTime |-> res.lastCheckpointTime,
                                dirty |-> repo.isRepo /\ StatusLines(repo) # {}]
    /\ edits' = 0
    /\ UNCHANGED <<now, history, disk, mem, home, procs>>

SessionStart == Invoke({"--session-start"}, Configs, SessionStdins, MaxFail)
SessionEnd == Invoke({"--session-end"}, Configs, SessionStdins, MaxFail)
PreEdit == Invoke({"--pre-edit"}, Configs, PreEditStdins, MaxFail)
Help == Invoke({"--help"}, {DefaultConfig}, {NotObject("empty")}, 0)
UnknownFlag == Invoke({"--bogus"}, {DefaultConfig}, {NotObject("empty")}, 0)

\* the time a step of the user takes
Gaps == {1000, DayMs}

\* the user (or the agent's tool) changes a file of the working tree
UserEdit ==
    /\ last = NoInvocation /\ edits < MaxEdits
    /\ \E f \in Files \ repo.ignored, d \in Gaps :
          /\ repo' = [repo EXCEPT !.unstaged = @ \cup {f}]
          /\ now' = now + d
    /\ edits' = edits + 1
    /\ UNCHANGED <<last, history, disk, mem, home, procs>>

\* the user stages a changed file (git add <file>)
UserStage ==
    /\ last = NoInvocation /\ edits < MaxEdits
    /\ repo.isRepo
    /\ \E f \in repo.unstaged :
          repo' = [repo EXCEPT !.unstaged = @ \ {f}, !.staged = @ \cup {f}]
    /\ edits' = edits + 1
    /\ UNCHANGED <<now, last, history, disk, mem, home, procs>>

\* the user goes back to another branch (git checkout <branch>)
UserCheckout ==
    /\ last = NoInvocation /\ edits < MaxEdits
    /\ repo.isRepo
    /\ \E b \in {"main", "feature"} \cap Branches(repo), d \in Gaps :
          /\ b # repo.head
          /\ repo' = [repo EXCEPT !.head = b]
          /\ now' = now + d
    /\ edits' = edits + 1
    /\ UNCHANGED <<last, history, disk, mem, home, procs>>

\* somebody pushes to the branch's upstream
RemoteAdvance ==
    /\ last = NoInvocation /\ edits < MaxEdits
    /\ repo.isRepo /\ OriginText \in repo.remotes /\ ~repo.ahead
    /\ repo' = [repo EXCEPT !.ahead = TRUE]
    /\ edits' = edits + 1
    /\ UNCHANGED <<now, last, history, disk, mem, home, procs>>

Next ==
    \/ SessionStart
    \/ SessionEnd
    \/ PreEdit
    \/ Help
    \/ UnknownFlag
    \/ UserEdit
    \/ UserStage
    \/ UserCheckout
    \/ RemoteAdvance

Spec == Init /\ [][Next]_vars

(***************************************************************************)
(* A session: the hosting agent runs the hooks one after another, each as  *)
(* its own process, and collects each one's output before the next.        *)
(***************************************************************************)
Committed(l) == \E i \in 1..Len(l.cmds) : l.cmds[i].cmd = "commit -m" /\ l.cmds[i].ok

Summary(l) ==
    [args |-> l.args, at |-> l.at, dirty |-> l.dirty,
     eligible |-> Eligible(readHookInput(l.stdin)), committed |-> Committed(l),
     disturbed |-> l.fail # {}, exit |-> l.exit]

Collect ==
    /\ last # NoInvocation
    /\ Len(history) < MaxInvocations
    /\ history' = Append(history, Summary(last))
    /\ last' = NoInvocation
    /\ UNCHANGED <<repo, now, edits, disk, mem, home, procs>>

SessionConfigs == {DefaultConfig}
SessionPayloads ==
    {Object(RepoDir, Absent, Absent, <<>>, Absent),
     Object(RepoDir, "clear", Absent, <<>>, Absent)}
EditPayloads ==
    {Object(RepoDir, Absent, "Edit", <<>>, "/tmp/repo/src/a.txt"),
     Object(RepoDir, Absent, "Bash", EchoPipeCommand, Absent)}

SessionRepos ==
    {ExistingRepo("main", {}, {OriginText}, {}, {}),
     ExistingRepo("main", SessionNames(NumSuffixes + 1), {}, {}, {}),
     ExistingRepo("feature", {}, {OriginText}, {"b.txt"}, {}),
     NoRepo({"a.txt"}, {})}

SessionInit ==
    /\ repo \in SessionRepos
    /\ now = StartClock
    /\ last = NoInvocation
    /\ history = <<>>
    /\ edits = 0
    /\ disk = NoFile
    /\ mem = NoMemory
    /\ home = NoHome
    /\ procs = NoProcs

StartHook == Invoke({"--session-start"}, SessionConfigs, SessionPayloads, MaxFail)
EndHook == Invoke({"--session-end"}, SessionConfigs, SessionPayloads, MaxFail)
EditHook == Invoke({"--pre-edit"}, SessionConfigs, EditPayloads, MaxFail)

SessionNext ==
    \/ StartHook
    \/ EndHook
    \/ EditHook
    \/ Collect
    \/ UserEdit
    \/ UserCheckout

SessionSpec == SessionInit /\ [][SessionNext]_vars

(***************************************************************************)
(* The classifier on its own: one PreToolUse event of the Bash tool, its   *)
(* command put together from at most MaxPieces pieces, in a repository     *)
(* with pending changes.  The handler goes on to the repository check      *)
(* exactly when the classifier answers destructive.                        *)
(***************************************************************************)
MaxPieces == 3

Pieces ==
    {<<"r", "m">>, <<" ">>, <<"-", "r", "f">>,
     <<"-", "-", "r", "e", "c", "u", "r", "s", "i", "v", "e">>,
     <<"g", "i", "t">>, <<"c", "l", "e", "a", "n">>, <<"m", "v">>,
     <<">">>, <<"|">>, <<"x">>}

RECURSIVE Built(_)
Built(n) ==
    IF n = 0 THEN {<<>>}
    ELSE Built(n - 1) \cup {cmd \o piece : cmd \in Built(n - 1), piece \in Pieces}

GitResetCommand ==
    <<"g", "i", "t", " ", "r", "e", "s", "e", "t", " ", "-", "-", "h", "a", "r", "d">>
MvCommand == <<"m", "v", " ", "a", " ", "b">>
EchoRedirectCommand ==
    <<"e", "c", "h", "o", " ", "h", "i", " ", ">", " ", "o", "u", "t", ".", "t", "x", "t">>

BashCommands ==
    Built(MaxPieces)
    \cup {RmRfCommand, GitResetCommand, MvCommand, EchoRedirectCommand, EchoPipeCommand}

ClassifyInit ==
    /\ repo = ExistingRepo("feature", {}, {}, {"b.txt"}, {})
    /\ now = StartClock
    /\ last = NoInvocation
    /\ history = <<>>
    /\ edits = 0
    /\ disk = NoFile
    /\ mem = NoMemory
    /\ home = NoHome
    /\ procs = NoProcs

BashEvent ==
    Invoke({"--pre-edit"}, {DefaultConfig},
           {Object(RepoDir, Absent, "Bash", command, Absent) : command \in BashCommands}, 0)

ClassifyNext == BashEvent

ClassifySpec == ClassifyInit /\ [][ClassifyNext]_vars

(***************************************************************************)
(* The command line on its own: one process, any flag, any content of      *)
(* standard input, with and without verbose logging.                       *)
(***************************************************************************)
\* text that JSON.parse rejects: an event object cut off before its end
Malformed ==
    [kind |-> "malformed",
     value |-> [isNull |-> FALSE, cwd |-> MissingDir, reason |-> "clear", tool_name |-> "Read",
                tool_input |-> [command |-> <<>>, file_path |-> NonString]]]

\* the event object {}
EmptyEvent == Object(Absent, Absent, Absent, <<>>, Absent)

CliStdins ==
    {NotObject("empty"), Malformed, NotObject("null"),
     NotObject("scalar"),        \* a JSON number, string, boolean or array
     EmptyEvent,
     Object(NonString, Absent, "Edit", <<>>, "b.txt"),
     Object(RepoDir, NonString, NonString, <<>>, Absent),
     Object(RepoDir, Absent, "Edit", <<>>, NonString),
     Object(RepoDir, "clear", "Write", <<>>, "b.txt"),
     Object(RepoDir, Absent, "Write", <<>>, "b.txt"),
     Object(RepoDir, Absent, "Bash", RmRfCommand, Absent)}

CliConfigs ==
    {DefaultConfig, Verbose(DefaultConfig), Verbose(Config(FALSE, FALSE, TRUE)),
     Config(TRUE, TRUE, FALSE)}

CliRepos ==
    {NoRepo({"a.txt", "b.txt"}, {"b.txt"}),
     ExistingRepo("main", {}, {OriginText}, {}, {}),
     ExistingRepo("main", SessionNames(1), {OriginText}, {"b.txt"}, {}),
     ExistingRepo("feature", {}, {OriginText}, {"b.txt"}, {}),
     ExistingRepo("feature", {}, {}, {}, {})}

CliInit ==
    /\ repo \in CliRepos
    /\ now = StartClock
    /\ last = NoInvocation
    /\ history = <<>>
    /\ edits = 0
    /\ disk = NoFile
    /\ mem = NoMemory
    /\ home = NoHome
    /\ procs = NoProcs

CliStart == Invoke({"--session-start"}, CliConfigs, CliStdins, MaxFail)
CliEnd == Invoke({"--session-end"}, CliConfigs, CliStdins, MaxFail)
CliPreEdit == Invoke({"--pre-edit"}, CliConfigs, CliStdins, MaxFail)
CliHelp ==
    \E args \in {{"--help"}, {"-h"}, {"-h", "--session-end"}, {"--help", "--bogus"}} :
       Invoke(args, CliConfigs, CliStdins, 0)
CliUnknown ==
    \E args \in {{"--bogus"}, {"--sessionstart"}, {"--bogus", "start"}} :
       Invoke(args, CliConfigs, CliStdins, 0)

CliNext ==
    \/ CliStart
    \/ CliEnd
    \/ CliPreEdit
    \/ CliHelp
    \/ CliUnknown

CliSpec == CliInit /\ [][CliNext]_vars

(***************************************************************************)
(* env-guard.js: the PreToolUse hook that keeps the values of secret files *)
(* out of the conversation.  Paths and lines are tuples of characters.     *)
(***************************************************************************)
MaxLinePieces == 4    \* pieces one line of the .env file is put together from

\* path.basename: what follows the last "/"
BasenameOf(filePath) ==
    IF \E i \in 1..Len(filePath) : filePath[i] = "/"
    THEN SubSeq(filePath,
                (CHOOSE i \in 1..Len(filePath) :
                    /\ filePath[i] = "/"
                    /\ \A j \in (i + 1)..Len(filePath) : filePath[j] # "/") + 1,
                Len(filePath))
    ELSE filePath

EndsWith(s, lit, ignoreCase) == LitAt(s, Len(s) - Len(lit) + 1, lit, ignoreCase)

\* /\.env($|\.)/
ENV_FILE_RE(s) ==
    \E i \in 1..Len(s) :
       /\ LitAt(s, i, <<".", "e", "n", "v">>, FALSE)
       /\ (i + 4 = Len(s) + 1 \/ LitAt(s, i + 4, <<".">>, FALSE))

\* /config\.json$/
CRED_CONFIG_RE(s) == EndsWith(s, <<"c", "o", "n", "f", "i", "g", ".", "j", "s", "o", "n">>, FALSE)

\* /etl|database|credential/
CRED_PATH_RE(s) ==
    \/ Includes(s, <<"e", "t", "l">>)
    \/ Includes(s, <<"d", "a", "t", "a", "b", "a", "s", "e">>)
    \/ Includes(s, <<"c", "r", "e", "d", "e", "n", "t", "i", "a", "l">>)

isSecretFile(filePath) ==
    IF filePath = <<>> THEN FALSE
    ELSE \/ ENV_FILE_RE(BasenameOf(filePath))
         \/ CRED_CONFIG_RE(BasenameOf(filePath)) /\ CRED_PATH_RE(filePath)

\* /\.json$/i
isJsonFile(filePath) == EndsWith(filePath, <<".", "j", "s", "o", "n">>, TRUE)

\* String.prototype.trim
TrimText(s) ==
    IF \A i \in 1..Len(s) : s[i] \in WhiteSpace THEN <<>>
    ELSE SubSeq(s,
                CHOOSE i \in 1..Len(s) :
                   s[i] \notin WhiteSpace /\ \A j \in 1..(i - 1) : s[j] \in WhiteSpace,
                CHOOSE i \in 1..Len(s) :
                   s[i] \notin WhiteSpace /\ \A j \in (i + 1)..Len(s) : s[j] \in WhiteSpace)

\* [A-Za-z_] and [A-Za-z0-9_]
IsNameStart(ch) == IsWord(ch) /\ ch \notin Digits

\* /^([A-Za-z_][A-Za-z0-9_]*)=(.*)/ : the position of the = that ends the key
\* at the start of the line, 0 when the line does not match
KEY_VALUE_RE(line) ==
    IF \E k \in 2..Len(line) :
          /\ line[k] = "="
          /\ IsNameStart(line[1])
          /\ \A j \in 1..(k - 1) : IsWord(line[j])
    THEN CHOOSE k \in 2..Len(line) :
            /\ line[k] = "="
            /\ \A j \in 1..(k - 1) : IsWord(line[j])
    ELSE 0

\* String(val.length)
DigitText == <<"0", "1", "2", "3", "4", "5", "6", "7", "8", "9">>
Decimal(n) ==
    IF n < 10 THEN <<DigitText[n + 1]>>
    ELSE <<DigitText[(n \div 10) + 1], DigitText[(n % 10) + 1]>>

\* `${key}=******* (${val.length} chars)`
MaskedLine(key, n) ==
    key \o <<"=", "*", "*", "*", "*", "*", "*", "*", " ", "(">> \o Decimal(n) \o <<" ", "c", "h", "a", "r", "s", ")">>

\* val ? `${key}=******* (${val.length} chars)` : `${key}=(empty)`
MaskedAt(line, k) ==
    IF k = Len(line) THEN SubSeq(line, 1, k - 1) \o <<"=", "(", "e", "m", "p", "t", "y", ")">>
    ELSE MaskedLine(SubSeq(line, 1, k - 1), Len(line) - k)

\* one line of sanitizeEnv: blank lines and comments as they are, KEY=value
\* masked, every other line as it is
SanitizedLine(line) ==
    IF TrimText(line) = <<>> \/ TrimText(line)[1] = "#" THEN line
    ELSE IF KEY_VALUE_RE(line) # 0 THEN MaskedAt(line, KEY_VALUE_RE(line))
    ELSE line

\* sanitizeEnv, on the lines fs.readFileSync(filePath).split('\n') gives; the view
\* is kept as the tuple of its lines (out.join('\n'))
sanitizeEnv(lines) == [i \in 1..Len(lines) |-> SanitizedLine(lines[i])]

\* sanitizeJson: the structure with the string values masked (not looked into here)
sanitizeJson(lines) == <<<<"{", ".", ".", ".", "}">>>>

\* fs.existsSync(filePath)
fileExists(fs, filePath) == fs.path = filePath /\ fs.state # "missing"

\* fs.readFileSync(filePath, 'utf8') throws when the path is a directory or the
\* file may not be read
fileReadable(fs, filePath) == fs.path = filePath /\ fs.state = "text"

allow == [decision |-> "allow", reason |-> <<>>]
block(reason) == [decision |-> "block", reason |-> reason]

\* the reason of a blocked Read: the banner, the name, the sanitized content, the tip
buildReadBlock(fs, filePath) ==
    [banner |-> "BLOCKED: Secret file - values are masked.",
     name |-> BasenameOf(filePath),
     content |-> IF isJsonFile(filePath) THEN sanitizeJson(fs.lines) ELSE sanitizeEnv(fs.lines)]

buildEditBlock(filePath) ==
    [banner |-> "BLOCKED: Cannot Edit", name |-> BasenameOf(filePath), content |-> <<>>]

\* process.stdin.on('end', ...): parse, decide, console.log; every exception
\* inside (unparseable input, null, a file that cannot be read) is answered allow
GuardAnswer(stdin, fs) ==
    IF stdin.kind # "object" THEN allow
    ELSE IF stdin.tool_name = "Read" /\ isSecretFile(stdin.file_path)
         THEN IF ~fileExists(fs, stdin.file_path) THEN block([banner |-> "File not found", name |-> stdin.file_path, content |-> <<>>])
              ELSE IF ~fileReadable(fs, stdin.file_path) THEN allow
              ELSE block(buildReadBlock(fs, stdin.file_path))
    ELSE IF stdin.tool_name = "Edit" /\ isSecretFile(stdin.file_path)
         THEN block(buildEditBlock(stdin.file_path))
    ELSE allow

\* the paths of the model
EnvPath == <<"/", "a", "p", "p", "/", ".", "e", "n", "v">>
GuardPaths ==
    {EnvPath,
     <<"/", "a", "p", "p", "/", ".", "e", "n", "v", ".", "l", "o", "c", "a", "l">>,
     <<"/", "a", "p", "p", "/", "p", "r", "o", "d", ".", "e", "n", "v">>,
     <<"/", "a", "p", "p", "/", ".", "e", "n", "v", "r", "c">>,
     <<"/", "a", "p", "p", "/", "e", "t", "l", "/", "c", "o", "n", "f", "i", "g", ".", "j", "s", "o", "n">>,
     <<"/", "a", "p", "p", "/", "c", "o", "n", "f", "i", "g", ".", "j", "s", "o", "n">>,
     <<"/", "a", "p", "p", "/", "d", "a", "t", "a", "b", "a", "s", "e", "/", "x", "c", "o", "n", "f", "i", "g", ".", "j", "s", "o", "n">>,
     <<"/", "a", "p", "p", "/", "r", "e", "a", "d", "m", "e", ".", "m", "d">>}

\* the lines of a .env file: put together from at most MaxLinePieces pieces
LinePieces == {<<"K">>, <<"=">>, <<" ">>, <<"e", "x", "p", "o", "r", "t", " ">>, <<"Z", "Q">>, <<"#">>}

RECURSIVE BuiltLines(_)
BuiltLines(n) ==
    IF n = 0 THEN {<<>>}
    ELSE BuiltLines(n - 1) \cup {l \o piece : l \in BuiltLines(n - 1), piece \in LinePieces}

PlainLine == <<"K", "=", "Z", "Q">>

\* the file on disk: missing, there but not readable (a directory, no
\* permission), or a text file with its lines
GuardFiles ==
    {[path |-> p, state |-> st, lines |-> IF st = "text" THEN <<PlainLine>> ELSE <<>>] :
        p \in GuardPaths, st \in {"missing", "unreadable", "text"}}
    \cup {[path |-> EnvPath, state |-> "text", lines |-> <<<<"#", " ", "c">>, line>>] :
            line \in BuiltLines(MaxLinePieces)}

GuardEvent(tool, filePath) == [kind |-> "object", tool_name |-> tool, file_path |-> filePath]

GuardInit ==
    /\ repo = NoRepo({}, {})
    /\ now = 0
    /\ last = NoInvocation
    /\ history = <<>>
    /\ edits = 0
    /\ disk \in GuardFiles
    /\ mem = NoMemory
    /\ home = NoHome
    /\ procs = NoProcs

\* one run of env-guard.js on a tool call
Guard(stdins) ==
    /\ last = NoInvocation
    /\ \E stdin \in stdins :
          last' = [hook |-> "env-guard", stdin |-> stdin,
                   stdout |-> <<GuardAnswer(stdin, disk)>>, exit |-> 0]
    /\ UNCHANGED <<repo, now, history, edits, disk, mem, home, procs>>

GuardRead == Guard({GuardEvent("Read", p) : p \in {disk.path, <<"/", "a", "p", "p", "/", "r", "e", "a", "d", "m", "e", ".", "m", "d">>}})
GuardEdit == Guard({GuardEvent("Edit", p) : p \in {disk.path, <<"/", "a", "p", "p", "/", "r", "e", "a", "d", "m", "e", ".", "m", "d">>}})
GuardOther ==
    Guard({GuardEvent("Write", disk.path), GuardEvent("Bash", <<>>),
           [kind |-> "malformed", tool_name |-> "Read", file_path |-> disk.path],
           [kind |-> "null", tool_name |-> "", file_path |-> <<>>]})

GuardNext ==
    \/ GuardRead
    \/ GuardEdit
    \/ GuardOther

GuardSpec == GuardInit /\ [][GuardNext]_vars

(***************************************************************************)
(* agent-memory: the hooks that talk to the memory server on               *)
(* localhost:3377.  A hook is a node process: its script runs to the end   *)
(* (or to process.exit), and only then the event loop turns, connects the  *)
(* sockets of the requests the script created and runs their callbacks.    *)
(* http.request only creates the request: the lookup of `localhost`, the   *)
(* connection and the write happen in later turns of the event loop.       *)
(* process.exit ends the process at once, with whatever is still pending.  *)
(***************************************************************************)
MaxHooks == 3    \* hook processes in one behaviour

SKIP_TOOLS ==
    {"ListMcpResourcesTool", "SlashCommand", "Skill", "TodoWrite", "AskUserQuestion",
     "TaskCreate", "TaskUpdate", "TaskGet", "TaskList", "TaskOutput", "TaskStop",
     "EnterPlanMode", "ExitPlanMode"}

EmptyJson == [systemMessage |-> NoMessage]

\* a new node process for hook `name`
Spawned(m, name) ==
    [m EXCEPT !.hook = name, !.alive = TRUE, !.pending = {}, !.stdout = <<>>, !.exit = 0,
              !.runs = @ + 1, !.destroyed = {}]

\* http.request(...), req.write(payload), req.end(): the request is created
httpRequest(m, method, path) ==
    [m EXCEPT !.pending = @ \cup {[method |-> method, path |-> path, run |-> m.runs]},
              !.issued = @ \cup {[method |-> method, path |-> path, run |-> m.runs]}]

\* console.log(JSON.stringify(obj))
consoleLog(m, obj) == [m EXCEPT !.stdout = Append(@, obj)]

\* process.exit(code): the process is gone, and with it the requests that have
\* not been sent
processExit(m, code) == [m EXCEPT !.alive = FALSE, !.pending = {}, !.exit = code]

\* allow() of post-tool-use.js: console.log('{}'); process.exit(0)
allowAndExit(m) == processExit(consoleLog(m, EmptyJson), 0)

\* an output that writes the object and lets the process go on
outputAndStay(m, obj) == consoleLog(m, obj)

\* output(obj) of session-start.js
output(m, obj) == processExit(consoleLog(m, obj), 0)

\* post-tool-use.js, from its first line to process.exit
postToolUse(m, input) ==
    IF input.kind # "object" THEN allowAndExit(m)
    ELSE IF input.tool_name \in SKIP_TOOLS THEN allowAndExit(m)
    ELSE allowAndExit(httpRequest(m, "POST", "/api/queue"))

\* session-end.js, from its first line to process.exit
memorySessionEnd(m, input) ==
    IF input.kind # "object" \/ input.session_id = Absent THEN processExit(m, 0)
    ELSE processExit(httpRequest(m, "PATCH", "/api/sessions/{id}"), 0)

MCP_HINT == <<"# Agent Memory (MCP)">>

\* session-start.js, from its first line to the end of the script: the process
\* stays, waiting for the callbacks of its two requests
memorySessionStart(m, input) ==
    IF input.kind = "object" /\ input.reason = "clear" THEN output(m, EmptyJson)
    ELSE httpRequest(httpRequest(m, "POST", "/api/sessions"), "GET", "/api/observations")

\* what the server's answer to the observations request holds: text that is no
\* JSON, a JSON value that is no array, or an array whose elements are
\* observation objects or null
Body(json, array, items) == [json |-> json, array |-> array, items |-> items]
NoJson == Body(FALSE, FALSE, <<>>)
Observation ==
    [isNull |-> FALSE, created_at |-> "2026-01-01T10:00:00", type |-> "bugfix", title |-> "t"]
NullItem == [isNull |-> TRUE, created_at |-> Absent, type |-> Absent, title |-> Absent]
ObservationBodies ==
    {NoJson, Body(TRUE, FALSE, <<>>)}
    \cup {Body(TRUE, TRUE, items) :
            items \in {<<>>, <<Observation>>, <<Observation, Observation>>, <<NullItem>>,
                       <<Observation, NullItem>>}}

\* the body of res.on('end'): JSON.parse, the test for a non-empty array, the
\* lines of the observations (obs.created_at of null throws), and the catch
observationsEnd(m, data) ==
    IF ~data.json THEN output(m, [systemMessage |-> <<MCP_HINT>>])
    ELSE IF ~data.array \/ Len(data.items) = 0
         THEN output(m, [systemMessage |-> <<MCP_HINT>>])
    ELSE IF \E i \in 1..Len(data.items) : data.items[i].isNull
         THEN output(m, [systemMessage |-> <<MCP_HINT>>])
    ELSE output(m, [systemMessage |-> <<MCP_HINT, <<"Recent memory for", Len(data.items)>>>>])

\* the events the event loop can deliver for request r: the error that
\* req.destroy() raises, once the request was destroyed; else the response or
\* the timeout with the server up, the connection error or the timeout with it
\* down
RequestEvents(m, r) ==
    IF r \in m.destroyed THEN {[on |-> "error", data |-> NoJson]}
    ELSE IF m.up
         THEN {[on |-> "timeout", data |-> NoJson]}
              \cup {[on |-> "response", data |-> d] :
                      d \in IF r.method = "GET" THEN ObservationBodies
                           ELSE {Body(TRUE, FALSE, <<>>)}}
    ELSE {[on |-> "error", data |-> NoJson], [on |-> "timeout", data |-> NoJson]}

\* one turn of the event loop for request r of the process: the callback of
\* event e runs.  The callbacks of the observations request write the output
\* and exit (the timeout callback after req.destroy()); the others only write
\* a debug line, and sessionReq's timeout callback destroys the request.
Turned(m, r, e) ==
    IF r.method = "GET"
    THEN CASE e.on = "response" -> observationsEnd([m EXCEPT !.received = @ \cup {r}], e.data)
           [] e.on = "error" -> output(m, [systemMessage |-> <<MCP_HINT>>])
           [] e.on = "timeout" -> output([m EXCEPT !.destroyed = @ \cup {r}],
                                         [systemMessage |-> <<MCP_HINT>>])
    ELSE CASE e.on = "response" -> [m EXCEPT !.received = @ \cup {r}, !.pending = @ \ {r}]
           [] e.on = "error" -> [m EXCEPT !.pending = @ \ {r}, !.destroyed = @ \ {r}]
           [] e.on = "timeout" -> [m EXCEPT !.destroyed = @ \cup {r}]

MemoryInputs ==
    {[kind |-> "object", tool_name |-> tool, session_id |-> id, reason |-> reason] :
        tool \in {"Read", "Bash", "TodoWrite"}, id \in {"s1", Absent}, reason \in {Absent}}
    \cup {[kind |-> "object", tool_name |-> "", session_id |-> "s1", reason |-> "clear"],
          [kind |-> "malformed", tool_name |-> "", session_id |-> Absent, reason |-> Absent]}

MemoryInit ==
    /\ repo = NoRepo({}, {})
    /\ now = 0
    /\ last = NoInvocation
    /\ history = <<>>
    /\ edits = 0
    /\ disk = NoFile
    /\ home = NoHome
    /\ procs = NoProcs
    /\ \E up \in BOOLEAN : mem = [NoMemory EXCEPT !.up = up]

\* the agent starts a hook when no hook is running
Hook(name, Script(_, _)) ==
    /\ ~mem.alive
    /\ mem.runs < MaxHooks
    /\ \E input \in MemoryInputs :
          mem' = Script([Spawned(mem, name) EXCEPT !.reason = input.reason], input)
    /\ UNCHANGED <<repo, now, last, history, edits, disk, home, procs>>

PostToolUseHook == Hook("post-tool-use", postToolUse)
MemorySessionEndHook == Hook("session-end", memorySessionEnd)
MemorySessionStartHook == Hook("session-start", memorySessionStart)

\* the event loop of the running process
EventLoop ==
    /\ mem.alive
    /\ \E r \in mem.pending : \E e \in RequestEvents(mem, r) : mem' = Turned(mem, r, e)
    /\ UNCHANGED <<repo, now, last, history, edits, disk, home, procs>>

MemoryNext ==
    \/ PostToolUseHook
    \/ MemorySessionEndHook
    \/ MemorySessionStartHook
    \/ EventLoop

\* a running process gets its turns of the event loop
MemorySpec == MemoryInit /\ [][MemoryNext]_vars /\ WF_vars(EventLoop)

(***************************************************************************)
(* git-session/install.js: the installer.  It links git-session.js into    *)
(* ~/.claude/hooks and patches ~/.claude/settings.json.                    *)
(*                                                                         *)
(* The settings file is missing, unparseable, or a JSON object.  Of the    *)
(* object the model keeps `hooks`: for each event the list of its entries  *)
(* (or no list), an entry being a matcher and a list of hook commands.  An *)
(* entry without a `hooks` key behaves as one with an empty list           *)
(* (`e.hooks && e.hooks.some(...)`), so the model writes both as <<>>.     *)
(***************************************************************************)
MaxInstalls == 3    \* runs of install.js in a row

HookEvents == {"SessionStart", "SessionEnd", "PreToolUse"}

HookCommand(command, timeout) == [type |-> "command", command |-> command, timeout |-> timeout]

\* TARGETS.claude.hookEntries
hookEntries ==
    << [event |-> "SessionStart",
        entry |-> [matcher |-> Absent,
                   hooks |-> <<HookCommand("node ~/.claude/hooks/git-session.js --session-start", 30)>>]],
       [event |-> "SessionEnd",
        entry |-> [matcher |-> Absent,
                   hooks |-> <<HookCommand("node ~/.claude/hooks/git-session.js --session-end", 60)>>]],
       [event |-> "PreToolUse",
        entry |-> [matcher |-> "Edit|Write|NotebookEdit|Bash",
                   hooks |-> <<HookCommand("node ~/.claude/hooks/git-session.js --pre-edit", 15)>>]] >>

\* an iteration that pushes the entry without looking for it
AddedEntryAlways(settings, he) ==
    [settings EXCEPT !.hooks[he.event].present = TRUE,
                     !.hooks[he.event].entries = Append(@, he.entry)]

\* (e) => e.hooks && e.hooks.some((h) => h.command === cmd)
Carries(e, cmd) == \E i \in 1..Len(e.hooks) : e.hooks[i].command = cmd

NoList == [present |-> FALSE, entries |-> <<>>]
EmptySettings == [state |-> "json", hasHooks |-> FALSE, hooks |-> [ev \in HookEvents |-> NoList]]

\* readSettings: {} for a missing file, the parsed object otherwise
readSettings(file) == IF file.state = "missing" THEN EmptySettings ELSE file

\* one iteration of the loop of addHookEntries
AddedEntry(settings, he) ==
    IF \E i \in 1..Len(settings.hooks[he.event].entries) :
            Carries(settings.hooks[he.event].entries[i], he.entry.hooks[1].command)
    THEN [settings EXCEPT !.hooks[he.event].present = TRUE]
    ELSE [settings EXCEPT !.hooks[he.event].present = TRUE,
                          !.hooks[he.event].entries = Append(@, he.entry)]

\* whether that iteration pushed the entry
Pushes(settings, he) ==
    ~\E i \in 1..Len(settings.hooks[he.event].entries) :
            Carries(settings.hooks[he.event].entries[i], he.entry.hooks[1].command)

RECURSIVE AddedEntries(_, _, _)
AddedEntries(settings, entries, k) ==
    IF k > Len(entries) THEN settings
    ELSE AddedEntries(AddedEntry(settings, entries[k]), entries, k + 1)

\* addHookEntries: the file after the call.  The object is written back only
\* when an entry was pushed.
addHookEntries(file, entries) ==
    IF \E k \in 1..Len(entries) : Pushes(readSettings(file), entries[k])
    THEN AddedEntries([readSettings(file) EXCEPT !.hasHooks = TRUE], entries, 1)
    ELSE file

\* symlink(src, dest): unlink whatever is at dest, then link.  A directory at
\* dest cannot be unlinked, and symlinkSync throws.
symlinkThrows(dest) == dest = "directory"

\* install(), for the one target: the home directory after it, and whether it
\* threw (a directory in the way of the link, or settings that do not parse)
installThrows(h) == symlinkThrows(h.dest) \/ h.settings.state = "malformed"

install(h) ==
    IF symlinkThrows(h.dest) THEN h
    ELSE IF h.settings.state = "malformed" THEN [h EXCEPT !.dest = "symlink"]
    ELSE [h EXCEPT !.dest = "symlink", !.settings = addHookEntries(h.settings, hookEntries)]

\* one iteration of the loop of removeHookEntries
RemovedEntry(settings, he) ==
    IF ~settings.hooks[he.event].present THEN settings
    ELSE [settings EXCEPT !.hooks[he.event].entries =
            SelectSeq(@, LAMBDA e : ~Carries(e, he.entry.hooks[1].command))]

RECURSIVE RemovedEntries(_, _, _)
RemovedEntries(settings, entries, k) ==
    IF k > Len(entries) THEN settings
    ELSE RemovedEntries(RemovedEntry(settings, entries[k]), entries, k + 1)

\* removeHookEntries: the file after the call
removeHookEntries(file, entries) ==
    IF file.state = "missing" THEN file
    ELSE RemovedEntries(file, entries, 1)

\* removeSymlink(dest): only a symlink is removed
removeSymlink(dest) == IF dest = "symlink" THEN "missing" ELSE dest

uninstallThrows(h) == h.settings.state = "malformed"

uninstall(h) ==
    IF h.settings.state = "malformed" THEN [h EXCEPT !.dest = removeSymlink(@)]
    ELSE [h EXCEPT !.dest = removeSymlink(@),
                   !.settings = removeHookEntries(h.settings, hookEntries)]

\* entries a user may have in the settings of an event before the installer runs
OtherEntry == [matcher |-> "Bash", hooks |-> <<HookCommand("node ~/.claude/hooks/env-guard.js", 5)>>]
BareEntry == [matcher |-> "Read", hooks |-> <<>>]
\* an entry that already carries the command, with another timeout and next to
\* a command of the user
OwnEntry(he) ==
    [matcher |-> he.entry.matcher,
     hooks |-> <<HookCommand("notify-send hook", 5), HookCommand(he.entry.hooks[1].command, 10)>>]

PriorLists(he) ==
    {NoList} \cup
    {[present |-> TRUE, entries |-> es] :
        es \in {<<>>, <<OtherEntry>>, <<BareEntry, OtherEntry>>, <<he.entry>>,
                <<OtherEntry, OwnEntry(he)>>, <<he.entry, OtherEntry, he.entry>>}}

PriorSettings ==
    {[state |-> "missing", hasHooks |-> FALSE, hooks |-> [ev \in HookEvents |-> NoList]],
     [state |-> "malformed", hasHooks |-> FALSE, hooks |-> [ev \in HookEvents |-> NoList]],
     EmptySettings}
    \cup {[state |-> "json", hasHooks |-> TRUE,
           hooks |-> [ev \in HookEvents |->
                        CASE ev = "SessionStart" -> a [] ev = "SessionEnd" -> b [] OTHER -> c]] :
            a \in PriorLists(hookEntries[1]), b \in PriorLists(hookEntries[2]),
            c \in PriorLists(hookEntries[3])}

InstallInit ==
    /\ repo = NoRepo({}, {})
    /\ now = 0
    /\ last = [hook |-> "none", args |-> {}, exit |-> 0]
    /\ history = <<>>
    /\ edits = 0
    /\ disk = NoFile
    /\ mem = NoMemory
    /\ procs = NoProcs
    /\ \E settings \in PriorSettings, dest \in {"missing", "symlink", "file", "directory"} :
          home = [settings |-> settings, dest |-> dest, installs |-> 0, before |-> settings]

\* node install.js.  `installs` counts the runs in a row and `before` keeps the
\* settings file as it was before the first of them.
Install ==
    /\ home.installs < MaxInstalls
    /\ home' = [install(home) EXCEPT !.installs = @ + 1,
                                     !.before = IF home.installs = 0 THEN home.settings ELSE @]
    /\ last' = [hook |-> "install", args |-> {}, exit |-> IF installThrows(home) THEN 1 ELSE 0]
    /\ UNCHANGED <<repo, now, history, edits, disk, mem, procs>>

\* node install.js --uninstall
Uninstall ==
    /\ home.installs > 0
    /\ home' = [uninstall(home) EXCEPT !.installs = 0, !.before = uninstall(home).settings]
    /\ last' = [hook |-> "install", args |-> {"--uninstall"},
                exit |-> IF uninstallThrows(home) THEN 1 ELSE 0]
    /\ UNCHANGED <<repo, now, history, edits, disk, mem, procs>>

\* node install.js --help: prints the usage
InstallHelp ==
    /\ last.hook # "install" \/ last.args # {"--help"}
    /\ last' = [hook |-> "install", args |-> {"--help"}, exit |-> 0]
    /\ UNCHANGED <<repo, now, history, edits, disk, mem, home, procs>>

InstallNext ==
    \/ Install
    \/ Uninstall
    \/ InstallHelp

InstallSpec == InstallInit /\ [][InstallNext]_vars

(***************************************************************************)
(* The change summarizer on its own: formatChangeSummary applied to a      *)
(* porcelain listing of at most MaxStatusLines lines, or to a status       *)
(* command that fails.  A line of the listing is the text `XY path`.       *)
(* git() trims the output of the command before the summarizer splits it,  *)
(* which takes the leading blank of the first line away.                   *)
(***************************************************************************)
MaxStatusLines == 3

StatusCodes ==
    {<<" ", "M">>, <<"M", " ">>, <<"M", "M">>, <<"A", " ">>, <<"A", "M">>, <<"A", "D">>,
     <<" ", "D">>, <<"D", " ">>, <<"M", "D">>, <<"?", "?">>, <<"R", " ">>, <<"U", "U">>,
     <<"!", "!">>}

StatusPaths == <<"a", "b", "c", "d">>

\* the listings: line i is about path i
Listings ==
    UNION {{[i \in 1..n |-> code[i] \o <<" ", StatusPaths[i]>>] :
                code \in [1..n -> StatusCodes]} : n \in 0..MaxStatusLines}

\* result.trim(): the white space before the first character goes
TrimStart(text) ==
    IF text # <<>> /\ Head(text) \in WhiteSpace THEN Tail(text) ELSE text

\* status.output.split('\n').filter(Boolean) of the trimmed output; of each line
\* the loop looks at line.slice(0, 2)
SplitLines(listing) ==
    {<<SubSeq(IF i = 1 THEN TrimStart(listing[i]) ELSE listing[i], 1, 2), i>> :
        i \in 1..Len(listing)}

\* git('status --porcelain', dir) with the listing as the output of the command
StatusOf(listing, success) ==
    [git(Started(repo, DefaultConfig), "e_summary", <<"status --porcelain", "">>, RepoDir,
         IF success THEN {} ELSE {"e_summary"})
     EXCEPT !.output = IF success THEN SplitLines(listing) ELSE @]

SummaryInit ==
    /\ repo = ExistingRepo("feature", {}, {}, {"b.txt"}, {})
    /\ now = StartClock
    /\ history = <<>>
    /\ edits = 0
    /\ disk = NoFile
    /\ mem = NoMemory
    /\ home = NoHome
    /\ procs = NoProcs
    /\ \E listing \in Listings, success \in BOOLEAN :
          last = [hook |-> "formatChangeSummary", listing |-> listing, success |-> success,
                  done |-> FALSE, value |-> <<>>]

\* const changeSummary = formatChangeSummary(cwd)
Summarize ==
    /\ ~last.done
    /\ last' = [last EXCEPT !.done = TRUE,
                            !.value = Summarized(StatusOf(last.listing, last.success)).value]
    /\ UNCHANGED <<repo, now, history, edits, disk, mem, home, procs>>

SummaryNext == Summarize

SummarySpec == SummaryInit /\ [][SummaryNext]_vars

(***************************************************************************)
(* Properties.                                                             *)
(***************************************************************************)
Modes == {"--session-start", "--session-end", "--pre-edit"}

Ran(l, cmd) == \E i \in 1..Len(l.cmds) : l.cmds[i].cmd = cmd

\* the step is one run of the command with flag `mode`
Runs(mode) == last = NoInvocation /\ last' # NoInvocation /\ last'.args = {mode}

\* C1: an invocation with a recognised mode flag and a JSON-object payload writes
\* exactly one JSON object to standard output and exits 0, whichever of its git
\* commands fail.
C1_OneObjectExitZero ==
    (last.args \cap Modes # {} /\ last.stdin.kind = "object")
        => (Len(last.stdout) = 1 /\ last.exit = 0)

\* C2: every JSON object written in --pre-edit mode carries hookEventName
\* "PreToolUse" and permissionDecision "allow"; no path writes another decision.
C2_PreEditAlwaysAllows ==
    last.args = {"--pre-edit"} =>
        \A i \in 1..Len(last.stdout) :
           /\ last.stdout[i].hookSpecificOutput # {}
           /\ \A h \in last.stdout[i].hookSpecificOutput :
                 h.hookEventName = "PreToolUse" /\ h.permissionDecision = "allow"

\* a checkpoint whose commit failed, and its answer
C2_CommitFailedAnswered ==
    /\ last.args = {"--pre-edit"}
    /\ Len(last.stdout) = 1
    /\ \E i \in 1..Len(last.cmds) : last.cmds[i].cmd = "commit -m" /\ ~last.cmds[i].ok

\* the directory the run works in
Cwd(l) == getWorkingDir(readHookInput(l.stdin))

\* the payload is an event object (or nothing, read as {}): the handler can read
\* its fields
Readable(l) == ~readHookInput(l.stdin).isNull

\* ... and it does not say "clear"
PlainPayload(l) == Readable(l) /\ readHookInput(l.stdin).reason # "clear"

Mutating == {"pull --ff-only origin", "checkout -b", "add -A", "commit -m"}

UncommittedWarning(branch) ==
    [systemMessage |-> <<<<"Warning: Uncommitted changes on", branch>>>>,
     hookSpecificOutput |-> {}]

\* SessionStart begins in an existing repository, on a protected branch, with a
\* dirty working tree
StartsProtectedDirty ==
    /\ Runs("--session-start")
    /\ Readable(last')
    /\ Cwd(last') = RepoDir
    /\ repo.isRepo
    /\ repo.head \in last'.CONFIG.protectedBranches
    /\ StatusLines(repo) # {}

ProtectedDirtyKept ==
    /\ \A cmd \in Mutating : ~Ran(last', cmd)
    /\ repo'.head = repo.head
    /\ StatusLines(repo') = StatusLines(repo)
    /\ last'.stdout = <<UncommittedWarning(repo.head)>>

C4_PushOnlyWhenSafe ==
    [][Runs("--session-end") =>
         \A i \in 1..Len(last'.cmds) :
            last'.cmds[i].cmd = "push -u origin"
               => (/\ last'.CONFIG.autoPush
                   /\ OriginText \in repo.remotes
                   /\ last'.cmds[i].arg \notin last'.CONFIG.protectedBranches)]_vars

\* C5: two checkpoint-eligible PreToolUse events, one right after the other, each
\* its own invocation on a repository with pending changes (no git command
\* failing for an outside reason), give exactly one checkpoint commit when the
\* gap between them is below the cooldown, and two when it is above.
C5_RateLimitedAcrossInvocations ==
    \A i \in 1..(Len(history) - 1) :
       LET a == history[i]
           b == history[i + 1]
           commits == (IF a.committed THEN 1 ELSE 0) + (IF b.committed THEN 1 ELSE 0)
       IN  (/\ a.args = {"--pre-edit"} /\ b.args = {"--pre-edit"}
            /\ a.eligible /\ b.eligible
            /\ a.dirty /\ b.dirty
            /\ ~a.disturbed /\ ~b.disturbed)
           => /\ (b.at - a.at < CHECKPOINT_COOLDOWN_MS => commits = 1)
              /\ (b.at - a.at > CHECKPOINT_COOLDOWN_MS => commits = 2)

\* C6: after a SessionEnd that committed the pending changes (its commit succeeded
\* and the tree is clean), a further SessionEnd with no change in between (no
\* user step since the last invocation) creates no commit, runs no add, commit
\* or push, leaves the repository as it is and emits {}.
C6_SessionEndIdempotent ==
    [][(/\ Runs("--session-end")
        /\ history # <<>>
        /\ history[Len(history)].args = {"--session-end"}
        /\ history[Len(history)].committed
        /\ StatusLines(repo) = {}
        /\ now = history[Len(history)].at)
       => (/\ \A cmd \in {"add -A", "commit -m", "push -u origin"} : ~Ran(last', cmd)
           /\ repo' = repo
           /\ last'.stdout = <<EmptyObject>>
           /\ last'.exit = 0)]_vars

\* a second SessionEnd right after one that committed and left a clean tree
C6_SecondEndAfterCommit ==
    /\ history # <<>>
    /\ history[Len(history)].args = {"--session-end"}
    /\ history[Len(history)].committed
    /\ last.args = {"--session-end"}
    /\ last.at = history[Len(history)].at
    /\ ~last.dirty
    /\ last.fail = {}
    /\ last.stdout = <<EmptyObject>>

\* SessionStart begins in an existing directory that is not a git repository
StartsOutsideRepo ==
    /\ Runs("--session-start")
    /\ Readable(last')
    /\ Cwd(last') = RepoDir
    /\ ~repo.isRepo

InitialCommitOf(files) ==
    /\ repo'.isRepo
    /\ Born(repo')
    /\ repo'.commits[repo'.head] = <<Commit(<<"Initial commit">>, files)>>

BaseNameAt(CONFIG, t) == CONFIG.branchPrefix \o "/session-" \o DateText(t)

Suffixed(base, i) == base \o "-" \o LowerCase[i]

\* some name of the sequence base, base-a, ..., base-z is unused
SomeUnused(r, base) ==
    base \notin Branches(r) \/ \E i \in 1..NumSuffixes : Suffixed(base, i) \notin Branches(r)

\* the first unused name of the sequence
FirstUnused(r, base) ==
    IF base \notin Branches(r) THEN base
    ELSE Suffixed(base, CHOOSE i \in 1..NumSuffixes :
                           /\ Suffixed(base, i) \notin Branches(r)
                           /\ \A j \in 1..(i - 1) : Suffixed(base, j) \in Branches(r))

\* SessionStart begins in an existing repository, on a protected branch, with a
\* clean working tree, and the naming sequence has an unused name
StartsProtectedClean ==
    /\ Runs("--session-start")
    /\ Readable(last')
    /\ Cwd(last') = RepoDir
    /\ repo.isRepo /\ Born(repo)
    /\ repo.head \in last'.CONFIG.protectedBranches
    /\ StatusLines(repo) = {}
    /\ SomeUnused(repo, BaseNameAt(last'.CONFIG, now))

CreatedFirstUnused ==
    LET name == FirstUnused(repo, BaseNameAt(last'.CONFIG, now))
    IN  /\ repo'.head = name
        /\ Branches(repo') = Branches(repo) \cup {name}

BashCommand(l) == l.stdin.value.tool_input.command
IsBashEvent(l) ==
    /\ l.args = {"--pre-edit"}
    /\ l.stdin.kind = "object"
    /\ l.stdin.value.tool_name = "Bash"
    /\ l.CONFIG.checkpoint
SaidDestructive(l) == l.cmds # <<>>

\* the command contains one of the listed things, as text
Listed(cmd) ==
    \/ \E t \in {<<"r", "m", " ", "-", "r", "f">>, <<"r", "m", " ", "-", "r">>,
                 <<"r", "m", " ", "-", "-", "r", "e", "c", "u", "r", "s", "i", "v", "e">>,
                 <<"g", "i", "t", " ", "r", "e", "s", "e", "t">>,
                 <<"g", "i", "t", " ", "r", "e", "v", "e", "r", "t">>,
                 <<"g", "i", "t", " ", "c", "h", "e", "c", "k", "o", "u", "t">>,
                 <<"g", "i", "t", " ", "c", "l", "e", "a", "n">>,
                 <<"m", "v">>} : Includes(cmd, t)
    \/ \E i \in 1..Len(cmd) : cmd[i] = ">" /\ ~(i < Len(cmd) /\ cmd[i + 1] = "|")

WordAt(s, i, word) == LitAt(s, i, word, FALSE) /\ (i = 1 \/ ~IsWord(s[i - 1]))

Blank(s, i) == i <= Len(s) /\ s[i] \in WhiteSpace

\* what is enough for the answer destructive
Enough(cmd) ==
    \/ \E i \in 1..Len(cmd), flag \in {<<"-", "r", "f">>, <<"-", "r">>,
                 <<"-", "-", "r", "e", "c", "u", "r", "s", "i", "v", "e">>} :
          /\ WordAt(cmd, i, <<"r", "m">>)
          /\ Blank(cmd, i + 2)
          /\ LitAt(cmd, i + 3, flag, FALSE)
          /\ Blank(cmd, i + 3 + Len(flag))
    \/ \E i \in 1..Len(cmd), sub \in {<<"r", "e", "s", "e", "t">>, <<"r", "e", "v", "e", "r", "t">>,
                 <<"c", "h", "e", "c", "k", "o", "u", "t">>, <<"c", "l", "e", "a", "n">>} :
          /\ WordAt(cmd, i, <<"g", "i", "t">>)
          /\ Blank(cmd, i + 3)
          /\ LitAt(cmd, i + 4, sub, FALSE)
    \/ \E i \in 1..Len(cmd) : WordAt(cmd, i, <<"m", "v">>) /\ Blank(cmd, i + 2)
    \/ \E i \in 1..(Len(cmd) - 1) : cmd[i] = ">" /\ cmd[i + 1] # "|"

\* what every command reported destructive has
Needed(cmd) ==
    \/ \E i \in 1..Len(cmd), word \in {<<"r", "m">>, <<"g", "i", "t">>, <<"m", "v">>} :
          WordAt(cmd, i, word) /\ Blank(cmd, i + Len(word))
    \/ \E i \in 1..(Len(cmd) - 1) : cmd[i] = ">"

ClearPayload(l) == l.stdin.kind = "object" /\ l.stdin.value.reason = "clear"

\* the empty result: one JSON object without a message, exit 0
EmptyResult(l) ==
    /\ l.exit = 0
    /\ Len(l.stdout) = 1
    /\ l.stdout[1].systemMessage = NoMessage
    /\ \A h \in l.stdout[1].hookSpecificOutput : h.additionalContext = NoMessage

\* C11: a payload whose reason is "clear" short-circuits every handler
\* (SessionStart, SessionEnd and the PreEdit checkpoint): no git command is run,
\* the repository is unchanged and the empty result is emitted.
C11_ClearShortCircuits ==
    [][\A mode \in Modes :
          (Runs(mode) /\ ClearPayload(last'))
             => (last'.cmds = <<>> /\ repo' = repo /\ EmptyResult(last'))]_vars

\* SessionStart begins in an existing repository whose current branch is protected
StartsProtected ==
    /\ Runs("--session-start")
    /\ Readable(last')
    /\ Cwd(last') = RepoDir
    /\ repo.isRepo
    /\ repo.head \in last'.CONFIG.protectedBranches

\* the call sites of generateBranchName
NamingSites == {"s_verify"} \cup {"s_verify_" \o LowerCase[i] : i \in 1..NumSuffixes}

Message(l) == l.stdout[1].systemMessage

PullMessages == {"Pulled latest from", "Pull failed (may need manual merge)."}

MentionsPull(l) == \E i \in 1..Len(Message(l)) : Message(l)[i][1] \in PullMessages

\* {prefix}/session-YYYYMMDD, alone or with a suffix
NamesFrom(base) ==
    {base} \cup {Suffixed(base, i) : i \in 1..NumSuffixes}
           \cup {base \o "-" \o rnd : rnd \in RandomSuffixes}

MentionsNewBranch(l, base) ==
    \E i \in 1..Len(Message(l)) :
       /\ Message(l)[i][1] = "Created working branch"
       /\ Message(l)[i][2] \in NamesFrom(base)

\* SessionStart begins on main, clean, auto-pull on, origin there and answering
\* (of the run's git commands at most the pull itself fails)
StartsCleanMainWithOrigin ==
    /\ StartsProtectedClean
    /\ PlainPayload(last')
    /\ repo.head = "main"
    /\ last'.CONFIG.autoPull
    /\ OriginText \in repo.remotes
    /\ last'.fail \subseteq {"s_pull"}

\* C13 (as stated): on main with no local changes, auto-pull enabled and a
\* reachable origin, the SessionStart message mentions both a pull outcome and
\* the new branch {prefix}/session-YYYYMMDD, for every outcome of the pull (new
\* commits, already up to date, failed).
C13_PullAndBranchAlways ==
    [][StartsCleanMainWithOrigin =>
         (/\ Len(last'.stdout) = 1
          /\ MentionsPull(last')
          /\ MentionsNewBranch(last', BaseNameAt(last'.CONFIG, now)))]_vars

\* C13 (amended): the message names the new branch for every outcome of the
\* pull, and it mentions a pull outcome exactly when the pull fetched new commits
\* or failed; a pull that finds the branch already up to date leaves no message.
C13_PullMentionedUnlessUpToDate ==
    [][StartsCleanMainWithOrigin =>
         (/\ Len(last'.stdout) = 1
          /\ MentionsNewBranch(last', BaseNameAt(last'.CONFIG, now))
          /\ MentionsPull(last') <=> (repo.ahead \/ "s_pull" \in last'.fail))]_vars

\* the pull failed, and the message has both the failure and the new branch
C13_PullFailedAndBranched ==
    /\ last.args = {"--session-start"}
    /\ last.fail = {"s_pull"}
    /\ Len(last.stdout) = 1
    /\ Len(Message(last)) = 3
    /\ Message(last)[1] = <<"Pull failed (may need manual merge).">>
    /\ Message(last)[2] = <<"Created working branch", "work/session-19700101", "main">>

\* a help flag is among the arguments
HelpFlag(l) == l.args \cap {"--help", "-h"} # {}

\* the process ran a handler: a recognised mode flag and no help flag
RanHandler(l) == l.args \cap Modes # {} /\ ~HelpFlag(l)

\* C14: for every content of standard input (empty, malformed, any JSON value,
\* fields of any type) and every recognised mode, the invocation ends by
\* emitting its JSON result and exiting 0, never by an unhandled exception.
C14_NoUncaughtFault ==
    RanHandler(last) =>
       /\ last.exit = 0
       /\ Len(last.stdout) = 1
       /\ \A i \in 1..Len(last.stderr) : last.stderr[i] # <<"TypeError">>

\* the outcome of a process, as the caller and the repository see it
SameOutcome(res, l, r) ==
    /\ res.repo = r
    /\ res.cmds = l.cmds
    /\ res.stdout = l.stdout
    /\ res.stderr = l.stderr
    /\ res.exit = l.exit
    /\ res.lastCheckpointTime = l.lastCheckpointTime

\* C15: standard input that is empty or not parseable as JSON is treated as the
\* empty event object: the handler runs exactly as it does for {} on the same
\* repository (same git commands, same repository afterwards, same output) and
\* does not crash.
C15_UnreadableInputIsEmptyEvent ==
    [][\A mode \in Modes :
          (Runs(mode) /\ last'.stdin.kind \in {"empty", "malformed"})
             => (/\ last'.exit = 0
                 /\ Len(last'.stdout) = 1
                 /\ \E rnd \in RandomSuffixes :
                       SameOutcome(Main(last'.args, last'.CONFIG, EmptyEvent, repo,
                                        last'.fail, now, rnd),
                                   last', repo'))]_vars

\* SessionEnd given unparseable text worked in the default directory and
\* committed the pending changes
C15_MalformedEndCommitted ==
    /\ last.args = {"--session-end"}
    /\ last.stdin.kind = "malformed"
    /\ last.exit = 0
    /\ Committed(last)

\* C16: with a help flag the process prints the usage and exits 0 without running
\* a handler; with no recognised flag it exits 1 after writing an error to the
\* error stream, writes nothing to standard output and runs no git command.
C16_HelpAndUnknownFlag ==
    [][(last = NoInvocation /\ last' # NoInvocation) =>
         /\ HelpFlag(last') =>
               (/\ last'.exit = 0
                /\ last'.stdout = <<"usage">>
                /\ last'.cmds = <<>>
                /\ repo' = repo)
         /\ (~HelpFlag(last') /\ last'.args \cap Modes = {}) =>
               (/\ last'.exit = 1
                /\ last'.stderr # <<>>
                /\ last'.stdout = <<>>
                /\ last'.cmds = <<>>
                /\ repo' = repo)]_vars

\* -h together with --session-end in a repository with pending changes: the
\* usage, and no handler
C16_HelpBeatsMode ==
    /\ last.args = {"-h", "--session-end"}
    /\ last.stdin = EmptyEvent
    /\ StatusLines(repo) # {}
    /\ last.exit = 0
    /\ last.cmds = <<>>

\* CONFIG without verbose logging
Quiet(CONFIG) == [CONFIG EXCEPT !.verbose = FALSE]

\* the two processes agree in everything but the error stream
SameButStderr(a, b) ==
    /\ a.stdout = b.stdout
    /\ a.cmds = b.cmds
    /\ a.repo = b.repo
    /\ a.exit = b.exit

\* C17: two invocations that differ only in the verbose-logging flag, on the same
\* payload, repository, clock, failing commands and random draw, emit the same
\* JSON on standard output and run the same sequence of git commands with the
\* same results.
C17_VerboseNonInterfering ==
    [][\A mode \in Modes :
          Runs(mode) =>
             \A rnd \in RandomSuffixes :
                SameButStderr(Main(last'.args, Quiet(last'.CONFIG), last'.stdin, repo,
                                   last'.fail, now, rnd),
                              Main(last'.args, Verbose(last'.CONFIG), last'.stdin, repo,
                                   last'.fail, now, rnd))]_vars

\* a verbose SessionEnd that committed and pushed: log lines on the error
\* stream, one object on standard output
C17_VerboseEndLogged ==
    /\ last.args = {"--session-end"}
    /\ last.CONFIG.verbose
    /\ Ran(last, "push -u origin")
    /\ Len(last.stderr) = 3
    /\ last.stdout = <<EmptyObject>>

\* the tool call the guard answered
GuardCall == last.stdin

\* a secret file, in the words of the README: the basename has .env at its end
\* or followed by a dot, or it is config.json under a path that contains etl,
\* database or credential
SecretFile(filePath) ==
    \/ \E i \in 1..Len(BasenameOf(filePath)) :
          /\ LitAt(BasenameOf(filePath), i, <<".", "e", "n", "v">>, FALSE)
          /\ (i + 3 = Len(BasenameOf(filePath)) \/ LitAt(BasenameOf(filePath), i + 4, <<".">>, FALSE))
    \/ /\ BasenameOf(filePath) = <<"c", "o", "n", "f", "i", "g", ".", "j", "s", "o", "n">>
       /\ \E word \in {<<"e", "t", "l">>, <<"d", "a", "t", "a", "b", "a", "s", "e">>, <<"c", "r", "e", "d", "e", "n", "t", "i", "a", "l">>} : Includes(filePath, word)

\* C18: env-guard blocks every Read and every Edit of a secret file and allows
\* every other tool call; whatever the state of the file (missing, unreadable,
\* readable), a Read or Edit of a secret file is never answered allow.
C18_SecretBlockedOthersAllowed ==
    (last # NoInvocation /\ GuardCall.kind = "object") =>
       last.stdout[1].decision =
          IF GuardCall.tool_name \in {"Read", "Edit"} /\ SecretFile(GuardCall.file_path)
          THEN "block"
          ELSE "allow"

\* the first = of the line
EqualsAt(line) == CHOOSE k \in 1..Len(line) : line[k] = "=" /\ \A j \in 1..(k - 1) : line[j] # "="

\* what stands before the first =, without the blanks around it and without a
\* leading `export`
NameOf(line) ==
    LET before == TrimText(SubSeq(line, 1, EqualsAt(line) - 1))
    IN  IF LitAt(before, 1, <<"e", "x", "p", "o", "r", "t", " ">>, FALSE)
        THEN TrimText(SubSeq(before, 8, Len(before)))
        ELSE before

IsName(s) == s # <<>> /\ IsNameStart(s[1]) /\ \A j \in 1..Len(s) : IsWord(s[j])

\* the line assigns a value to a variable: KEY=value, export KEY=value, with or
\* without blanks in front and around the =
IsAssignment(line) ==
    /\ \E k \in 1..Len(line) : line[k] = "="
    /\ IsName(NameOf(line))
    /\ TrimText(SubSeq(line, EqualsAt(line) + 1, Len(line))) # <<>>

\* the guard blocked a Read of the .env file and returned its sanitized view
BlockedEnvRead ==
    /\ last # NoInvocation
    /\ GuardCall.kind = "object"
    /\ GuardCall.tool_name = "Read"
    /\ GuardCall.file_path = EnvPath
    /\ disk.state = "text"
    /\ last.stdout[1].decision = "block"

\* C19: in the sanitized view of a blocked Read of a .env file, every line that
\* assigns a value to a variable (KEY=value, export KEY=value, indented or
\* spaced) shows the variable name with the value replaced by the mask and a
\* length.
C19_EveryAssignmentMasked ==
    BlockedEnvRead =>
       \A i \in 1..Len(disk.lines) :
          IsAssignment(disk.lines[i]) =>
             \E n \in 1..Len(disk.lines[i]) :
                last.stdout[1].reason.content[i] = MaskedLine(NameOf(disk.lines[i]), n)

\* the requests of the fire-and-forget hooks
FireAndForget ==
    {[method |-> "POST", path |-> "/api/queue", run |-> n] : n \in 1..MaxHooks}
    \cup {[method |-> "PATCH", path |-> "/api/sessions/{id}", run |-> n] : n \in 1..MaxHooks}

\* C20: the request a fire-and-forget hook made (the POST to /api/queue of
\* post-tool-use for a tool outside the skip list, the PATCH of session-end)
\* reaches the server, when the server is up, although the hook has written its
\* output and exited without waiting.
C20_RequestReachesServer ==
    \A r \in FireAndForget : (r \in mem.issued /\ mem.up) ~> (r \in mem.received)

\* how many entries of the list carry the command
RECURSIVE Carriers(_, _)
Carriers(entries, cmd) ==
    IF entries = <<>> THEN 0
    ELSE (IF Carries(Head(entries), cmd) THEN 1 ELSE 0) + Carriers(Tail(entries), cmd)

IsPrefix(s, t) == Len(s) <= Len(t) /\ SubSeq(t, 1, Len(s)) = s

Installed == last.hook = "install" /\ home.installs >= 1

\* C21 as stated: after n >= 1 runs of install in a row each event holds exactly
\* one entry that carries the git-session command, and every entry that was in
\* the settings before the first run is still there.
C21_ExactlyOneEntry ==
    Installed =>
        \A k \in 1..Len(hookEntries) :
            /\ Carriers(home.settings.hooks[hookEntries[k].event].entries,
                        hookEntries[k].entry.hooks[1].command) = 1
            /\ \A i \in 1..Len(home.before.hooks[hookEntries[k].event].entries) :
                 \E j \in 1..Len(home.settings.hooks[hookEntries[k].event].entries) :
                    home.settings.hooks[hookEntries[k].event].entries[j]
                        = home.before.hooks[hookEntries[k].event].entries[i]

\* C21, amended: after n >= 1 runs of install in a row, when the settings do not
\* parse or a directory is in the way of the link the settings file is as it was
\* before the first run; otherwise the list of each event is the list it had
\* before the first run, followed by the git-session entry exactly when no entry
\* of that list carried the command.  So an event holds as many carrying entries
\* as before, and one when it held none.
C21_InstallAddsOnce ==
    Installed =>
        IF home.dest = "directory" \/ home.settings.state = "malformed"
        THEN home.settings = home.before
        ELSE \A k \in 1..Len(hookEntries) :
                home.settings.hooks[hookEntries[k].event].entries =
                    IF Carriers(home.before.hooks[hookEntries[k].event].entries,
                                hookEntries[k].entry.hooks[1].command) = 0
                    THEN Append(home.before.hooks[hookEntries[k].event].entries,
                                hookEntries[k].entry)
                    ELSE home.before.hooks[hookEntries[k].event].entries

\* install has run twice on settings that held a hook of the user for
\* SessionStart and an entry that already carried the PreToolUse command
C21_InstalledTwice ==
    /\ Installed
    /\ home.installs = 2
    /\ home.before.hooks["SessionStart"].entries = <<OtherEntry>>
    /\ home.settings.hooks["SessionStart"].entries = <<OtherEntry, hookEntries[1].entry>>
    /\ home.before.hooks["PreToolUse"].entries = <<OtherEntry, OwnEntry(hookEntries[3])>>
    /\ home.settings.hooks["PreToolUse"].entries = <<OtherEntry, OwnEntry(hookEntries[3])>>

\* the mutating commands of SessionEnd, and those an invocation ran, in order
EndSteps == {"add -A", "commit -m", "push -u origin"}
StepsOf(l) == SelectSeq(l.cmds, LAMBDA c : c.cmd \in EndSteps)
StepNames(l) == [i \in 1..Len(StepsOf(l)) |-> StepsOf(l)[i].cmd]

\* C22: SessionEnd runs its mutating steps in the order stage, commit, push; on
\* a dirty repository it stages and commits; a push is run only after the
\* commit of the same invocation succeeded; when the commit fails no push is
\* attempted and `{}` is emitted.
C22_StageCommitThenPush ==
    (last.args = {"--session-end"} /\ Readable(last)) =>
        /\ StepNames(last) \in {<<>>, <<"add -A", "commit -m">>,
                                <<"add -A", "commit -m", "push -u origin">>}
        /\ (last.dirty /\ PlainPayload(last) /\ Cwd(last) = RepoDir
              /\ last.fail \cap {"e_isrepo", "e_status"} = {})
             => Len(StepNames(last)) >= 2
        /\ Len(StepNames(last)) = 3 => StepsOf(last)[2].ok
        /\ (Len(StepNames(last)) >= 2 /\ ~StepsOf(last)[2].ok)
             => (Len(StepNames(last)) = 2 /\ EmptyResult(last))

\* the commit of a SessionEnd failed on a feature branch with an origin remote
\* and auto-push enabled: nothing was pushed
C22_CommitFailedNoPush ==
    /\ last.args = {"--session-end"}
    /\ last.CONFIG.autoPush
    /\ OriginText \in repo.remotes
    /\ repo.head = "feature"
    /\ StepNames(last) = <<"add -A", "commit -m">>
    /\ ~StepsOf(last)[2].ok
    /\ EmptyResult(last)

\* what the claim lists, as facts of the state the PreEdit invocation starts in
CheckpointDue(l, r, t) ==
    /\ l.CONFIG.checkpoint
    /\ Eligible(readHookInput(l.stdin))
    /\ Cwd(l) = RepoDir /\ r.isRepo
    /\ ~InCooldown(t, InitialCheckpointTime)
    /\ StatusLines(r) # {}

\* C23: the PreEdit handler stages and commits if and only if checkpointing is
\* enabled, the tool is Edit, Write or NotebookEdit or Bash with a destructive
\* command, the directory is a git repository, the cooldown has elapsed and the
\* working tree has pending changes; in every other case it runs no mutating git
\* command and the repository is unchanged.  Stated here for the invocations in
\* which every git command answers.
C23_CheckpointIffDue ==
    [][(Runs("--pre-edit") /\ Readable(last') /\ last'.fail = {}) =>
          /\ CheckpointDue(last', repo, now)
               <=> (Ran(last', "add -A") /\ Ran(last', "commit -m"))
          /\ ~CheckpointDue(last', repo, now)
               => (repo' = repo /\ \A i \in 1..Len(last'.cmds) : last'.cmds[i].cmd \notin Mutating)
      ]_vars

\* the entry of the run's pull in its command log, if it ran one
PullFailed(l) ==
    \E i \in 1..Len(l.cmds) : l.cmds[i].cmd = "pull --ff-only origin" /\ ~l.cmds[i].ok

\* the last part of the emitted message is the context `Branch: ...`
EndsWithContext(l) ==
    /\ Len(l.stdout) = 1 /\ l.exit = 0
    /\ Len(Message(l)) >= 1
    /\ Message(l)[Len(Message(l))][1] = "Branch:"

\* C24: SessionStart attempts a pull only when auto-pull is enabled, an origin
\* remote exists and the working tree is clean (clean as far as the status
\* command of step 2 answered); and a failed pull never aborts the handler: the
\* "Pull failed (may need manual merge)." warning is in the message, the
\* working-branch step still runs when the branch is protected, and the final
\* context is emitted.
C24_PullOnlyWhenSafeNeverAborts ==
    [][(Runs("--session-start") /\ Readable(last')) =>
          /\ Ran(last', "pull --ff-only origin") =>
                /\ last'.CONFIG.autoPull
                /\ OriginText \in repo.remotes
                /\ "s_status_pull" \notin last'.fail => StatusLines(repo) = {}
          /\ PullFailed(last') =>
                /\ EndsWithContext(last')
                /\ \E i \in 1..Len(Message(last')) :
                      Message(last')[i] = <<"Pull failed (may need manual merge).">>
                /\ (repo.head \in last'.CONFIG.protectedBranches /\ "s_branch" \notin last'.fail)
                      => Ran(last', "checkout -b")
      ]_vars

\* the command the run made at call site `site` succeeded
SiteOk(l, site) == \E i \in 1..Len(l.cmds) : l.cmds[i].site = site /\ l.cmds[i].ok

MentionsCreated(l) ==
    \E i \in 1..Len(Message(l)) : Message(l)[i][1] = "Created working branch"

\* SessionStart begins in an existing repository that is not protected-and-dirty
StartsOutsideWarning ==
    /\ Runs("--session-start")
    /\ Readable(last')
    /\ Cwd(last') = RepoDir
    /\ repo.isRepo
    /\ ~(repo.head \in last'.CONFIG.protectedBranches /\ StatusLines(repo) # {})

\* C25 (as stated): for every existing repository that is not in the
\* protected-and-dirty case SessionStart emits a message whose last part is the
\* context `Branch: <active branch>`, also when the pull and the checkout fail,
\* and `Created working branch` is in the message only when the checkout
\* succeeded.
C25_ContextAlways ==
    [][StartsOutsideWarning =>
         (/\ EndsWithContext(last')
          /\ Message(last')[Len(Message(last'))][2] = repo'.head
          /\ MentionsCreated(last') => SiteOk(last', "s_checkout"))]_vars

\* C25 (amended): when the payload does not say "clear" and the repository check
\* answers, the message ends with the context; its branch is the active branch
\* when the branch query of step 4 answers, else the branch read at the start,
\* else the text null; the dirty annotation is there exactly when the status
\* call of step 4 answers and finds changes, the recent commits exactly when the
\* log call succeeds; and `Created working branch` is in the message exactly
\* when the checkout succeeded.
C25_ContextWhenNotCleared ==
    [][(StartsOutsideWarning /\ PlainPayload(last') /\ "s_isrepo" \notin last'.fail) =>
         (/\ EndsWithContext(last')
          /\ Message(last')[Len(Message(last'))] =
                <<"Branch:",
                  IF SiteOk(last', "s_branch_active") THEN repo'.head
                  ELSE IF SiteOk(last', "s_branch") THEN repo.head ELSE "null",
                  IF SiteOk(last', "s_status_context") /\ StatusLines(repo') # {}
                  THEN " (uncommitted changes)" ELSE "",
                  IF SiteOk(last', "s_log") THEN "Recent commits:" ELSE "">>
          /\ MentionsCreated(last') <=> SiteOk(last', "s_checkout"))]_vars

\* the pull and the checkout both failed, and the message is the warning
\* followed by the context of the branch the session stayed on
C25_BothFailedStillContext ==
    /\ last.args = {"--session-start"}
    /\ PullFailed(last)
    /\ \E i \in 1..Len(last.cmds) : last.cmds[i].cmd = "checkout -b" /\ ~last.cmds[i].ok
    /\ Len(last.stdout) = 1
    /\ Message(last) = << <<"Pull failed (may need manual merge).">>,
                          <<"Branch:", "main", "", "Recent commits:">> >>

\* C26: the checkpoint timer is recorded only on commit success: a PreEdit
\* invocation that is skipped or whose commit fails leaves lastCheckpointTime as
\* the process found it, and a successful checkpoint sets it to the time read
\* before the commit.
C26_TimerOnlyOnCommit ==
    last.args = {"--pre-edit"} =>
        last.lastCheckpointTime = IF Committed(last) THEN last.at ELSE InitialCheckpointTime

\* a checkpoint whose commit failed after the staging: the timer is untouched
C26_CommitFailedTimerKept ==
    /\ last.args = {"--pre-edit"}
    /\ Ran(last, "add -A")
    /\ \E i \in 1..Len(last.cmds) : last.cmds[i].cmd = "commit -m" /\ ~last.cmds[i].ok
    /\ last.at > CHECKPOINT_COOLDOWN_MS
    /\ last.lastCheckpointTime = InitialCheckpointTime

\* C27: a checkpoint is permitted only if the current time minus the last
\* recorded checkpoint time strictly exceeds the cooldown window: a PreEdit run
\* that gets as far as the status call and the staging read a time more than
\* CHECKPOINT_COOLDOWN_MS after the timer it found.
C27_PermittedOnlyAfterCooldown ==
    (last.args = {"--pre-edit"} /\ (Ran(last, "status --porcelain") \/ Ran(last, "add -A")))
        => last.at - InitialCheckpointTime > CHECKPOINT_COOLDOWN_MS

\* C28: hasRemote returns true if and only if the remote list of the repository
\* holds a remote whose name is exactly origin, so that in a repository whose
\* remotes are all named differently no pull and no push is attempted.
C28_HasRemoteIffOriginNamed ==
    repo.isRepo =>
        /\ hasRemote(Started(repo, DefaultConfig), "s_remote", RepoDir, {}).value
              <=> OriginText \in repo.remotes
        /\ (Ran(last, "pull --ff-only origin") \/ Ran(last, "push -u origin"))
              => OriginText \in repo.remotes

\* C29: getCurrentBranch returns the name of the branch HEAD points to, and null
\* when HEAD is detached or the git call fails; so no handler pulls or pushes a
\* detached HEAD as if it were a branch.
C29_DetachedHeadIsNoBranch ==
    [][(Runs("--session-start") \/ Runs("--session-end")) =>
          /\ (repo.isRepo /\ Born(repo)) =>
                /\ getCurrentBranch(Started(repo, DefaultConfig), "s_branch", RepoDir, {}).value
                      = IF repo.head = DetachedHead THEN Null ELSE repo.head
                /\ getCurrentBranch(Started(repo, DefaultConfig), "s_branch", RepoDir,
                                    {"s_branch"}).value = Null
          /\ repo.head = DetachedHead =>
                ~(Ran(last', "pull --ff-only origin") \/ Ran(last', "push -u origin"))
      ]_vars

\* the bucket of a status code: the first of M, A, D, ? that occurs in it
Bucket(code) ==
    CASE "M" \in {code[1], code[2]} -> "modified"
      [] "M" \notin {code[1], code[2]} /\ "A" \in {code[1], code[2]} -> "added"
      [] {"M", "A"} \cap {code[1], code[2]} = {} /\ "D" \in {code[1], code[2]} -> "deleted"
      [] {"M", "A", "D"} \cap {code[1], code[2]} = {} /\ "?" \in {code[1], code[2]} -> "new"
      [] OTHER -> "none"

InBucket(listing, label) ==
    Cardinality({i \in 1..Len(listing) : Bucket(SubSeq(listing[i], 1, 2)) = label})

BucketOrder == <<"modified", "added", "deleted", "new">>

RECURSIVE Rendered(_, _)
Rendered(listing, k) ==
    IF k > Len(BucketOrder) THEN <<>>
    ELSE (IF InBucket(listing, BucketOrder[k]) > 0
          THEN <<<<InBucket(listing, BucketOrder[k]), BucketOrder[k]>>>> ELSE <<>>)
         \o Rendered(listing, k + 1)

ChangesPhrase == <<<<0, "Changes">>>>

\* C30: the summarizer counts each status line in at most one bucket, the first
\* of M, A, D, ? that occurs in the line's two-character status code, renders the
\* non-zero buckets in the order modified, added, deleted, new, and returns the
\* phrase `Changes` exactly when the status command fails or no line falls in a
\* bucket.
C30_SummaryByFirstLetter ==
    (last.hook = "formatChangeSummary" /\ last.done) =>
        /\ last.value = IF last.success /\ Rendered(last.listing, 1) # <<>>
                        THEN Rendered(last.listing, 1) ELSE ChangesPhrase
        /\ last.value = ChangesPhrase
              <=> (~last.success
                   \/ \A i \in 1..Len(last.listing) :
                         Bucket(SubSeq(last.listing[i], 1, 2)) = "none")

\* a listing whose first line starts with a blank and whose lines carry two
\* letters each: ` D a`, `AM b`, `?? c` gives 1 modified, 1 deleted, 1 new
C30_MixedListingSummarized ==
    /\ last.hook = "formatChangeSummary" /\ last.done /\ last.success
    /\ last.listing = << <<" ", "D", " ", "a">>, <<"A", "M", " ", "b">>, <<"?", "?", " ", "c">> >>
    /\ last.value = << <<1, "modified">>, <<1, "deleted">>, <<1, "new">> >>

\* C34: SessionStart initializes a repository and creates the `Initial commit`
\* only when the target directory is not a git repository: in a directory that
\* already is one it never runs init, add or commit, whichever of its git
\* commands fail or time out.
C34_NoInitInExistingRepo ==
    [][(Runs("--session-start") /\ repo.isRepo) =>
          \A i \in 1..Len(last'.cmds) : last'.cmds[i].cmd \notin {"init", "add -A", "commit -m"}
      ]_vars

\* the allow object of PreToolUse without additionalContext
AllowObject ==
    [systemMessage |-> NoMessage,
     hookSpecificOutput |-> {[hookEventName |-> "PreToolUse", permissionDecision |-> "allow",
                              additionalContext |-> NoMessage]}]

\* C38: the SessionEnd and PreEdit handlers never attach a message: on every
\* path on which the handler ends (skipped, committed, commit failed, pushed,
\* push failed) SessionEnd emits exactly `{}` and PreEdit the allow object
\* without additionalContext; only SessionStart ever emits a systemMessage.
C38_OnlyStartAttachesMessage ==
    /\ (last.args = {"--session-end"} /\ last.exit = 0) => last.stdout = <<EmptyObject>>
    /\ (last.args = {"--pre-edit"} /\ last.exit = 0) => last.stdout = <<AllowObject>>
    /\ (last.args \in {{"--session-end"}, {"--pre-edit"}} /\ last.exit # 0) => last.stdout = <<>>
    /\ (RanHandler(last) /\ \E i \in 1..Len(last.stdout) :
                                 last.stdout[i].systemMessage # NoMessage)
          => last.args = {"--session-start"}

\* a SessionEnd that committed and whose push failed still wrote `{}`
C38_PushFailedStillEmpty ==
    /\ last.args = {"--session-end"}
    /\ \E i \in 1..Len(last.cmds) : last.cmds[i].cmd = "commit -m" /\ last.cmds[i].ok
    /\ \E i \in 1..Len(last.cmds) : last.cmds[i].cmd = "push -u origin" /\ ~last.cmds[i].ok
    /\ last.stdout = <<EmptyObject>>

\* the hook commands of the user in the settings of the model
UserHookCommands ==
    {HookCommand("notify-send hook", 5), HookCommand("node ~/.claude/hooks/env-guard.js", 5)}

\* the settings hold hook command h under event ev
Holds(settings, ev, h) ==
    \E i \in 1..Len(settings.hooks[ev].entries) :
        \E j \in 1..Len(settings.hooks[ev].entries[i].hooks) :
            settings.hooks[ev].entries[i].hooks[j] = h

\* the step is a run of install.js --uninstall after at least one install
Uninstalls == home.installs > 0 /\ home'.installs = 0

\* C32: uninstall removes from the settings only what install added: after
\* install followed by uninstall every hook command that was configured before
\* is still there, the git-session entries are gone, and no run of the installer
\* deletes a file of the hooks directory that is not a symlink.
C32_UninstallRemovesOnlyInstalled ==
    [][/\ Uninstalls =>
            /\ \A ev \in HookEvents, h \in UserHookCommands :
                  Holds(home.before, ev, h) => Holds(home'.settings, ev, h)
            /\ home'.settings.state # "malformed" =>
                  \A k \in 1..Len(hookEntries) :
                      Carriers(home'.settings.hooks[hookEntries[k].event].entries,
                               hookEntries[k].entry.hooks[1].command) = 0
       /\ home.dest \in {"file", "directory"} => home'.dest = home.dest
      ]_vars

(***************************************************************************)
(* Hook processes followed one git command at a time.  Every hook is its   *)
(* own node process; nothing locks the repository between two of them, so  *)
(* the commands of processes that run at the same time interleave.  A      *)
(* process is suspended in execSync while its command runs and goes on     *)
(* when the command has returned, with success or, after 10 s at the       *)
(* latest, with failure.  procs[p].seen holds the results the process has  *)
(* got so far: they determine where in its handler the process is.         *)
(***************************************************************************)
IdleProc ==
    [state |-> "idle", args |-> {}, CONFIG |-> DefaultConfig, stdin |-> NotObject("empty"),
     fail |-> {}, at |-> 0, rnd |-> "none", dirty |-> FALSE, seen |-> <<>>,
     cmds |-> <<>>, stdout |-> <<>>, stderr |-> <<>>, exit |-> 0]

\* the hosting agent spawns the hook
Launch(p, args, configs, stdins, fails) ==
    /\ procs[p].state = "idle"
    /\ \E CONFIG \in configs, stdin \in stdins, rnd \in RandomSuffixes :
         LET Run(F) == Main(args, CONFIG, stdin, repo, F, now, rnd)
         IN  \E fail \in FailChoices(Run, fails) :
                procs' = [procs EXCEPT ![p] =
                            [IdleProc EXCEPT !.state = "running", !.args = args,
                                             !.CONFIG = CONFIG, !.stdin = stdin,
                                             !.fail = fail, !.at = now, !.rnd = rnd,
                                             !.dirty = repo.isRepo /\ StatusLines(repo) # {}]]
    /\ UNCHANGED <<repo, now, last, history, edits, disk, mem, home>>

\* the process as far as its next git command: the commands it has seen
\* return are not run again, the next one runs on the repository as it is
\* now, and what the handler does after that has not happened yet
Resumed(q, r) ==
    Main(q.args, q.CONFIG @@ [seen |-> q.seen, fresh |-> 1], q.stdin, r, q.fail, q.at, q.rnd)

\* the process runs its next git command, or, when none is left, writes its
\* result and exits
Step(p) ==
    /\ procs[p].state = "running"
    /\ \E res \in {Resumed(procs[p], repo)} :
         /\ repo' = res.repo
         /\ procs' = [procs EXCEPT ![p] =
               IF Len(res.cmds) > Len(procs[p].seen) + 1
               THEN [@ EXCEPT !.seen = SubSeq(res.seen, 1, Len(procs[p].seen) + 1),
                              !.cmds = SubSeq(res.cmds, 1, Len(procs[p].seen) + 1)]
               ELSE [@ EXCEPT !.state = "done", !.seen = res.seen, !.cmds = res.cmds,
                              !.stdout = res.stdout, !.stderr = res.stderr,
                              !.exit = res.exit]]
    /\ UNCHANGED <<now, last, history, edits, disk, mem, home>>

(***************************************************************************)
(* One process under every pattern of git failures.                        *)
(***************************************************************************)
StepInit ==
    /\ repo \in InitialRepos
    /\ now = StartClock
    /\ last = NoInvocation
    /\ history = <<>>
    /\ edits = 0
    /\ disk = NoFile
    /\ mem = NoMemory
    /\ home = NoHome
    /\ procs = [p \in {1} |-> IdleProc]

StepConfigs == {DefaultConfig}
StepStdins ==
    {NotObject("empty"), NotObject("null"),
     Object(RepoDir, Absent, "Edit", <<>>, "/tmp/repo/src/a.txt")}

SessionStartProcess == Launch(1, {"--session-start"}, StepConfigs, StepStdins, MaxFail)
SessionEndProcess == Launch(1, {"--session-end"}, StepConfigs, StepStdins, MaxFail)
PreEditProcess == Launch(1, {"--pre-edit"}, StepConfigs, StepStdins, MaxFail)
ProcessStep == Step(1)

StepNext ==
    \/ SessionStartProcess
    \/ SessionEndProcess
    \/ PreEditProcess
    \/ ProcessStep

\* The operating system schedules the process, and execSync returns when the
\* command has ended or its timeout of 10 s has passed: weak fairness of the
\* process's step, WF_vars(ProcessStep), written with the step's enabling
\* condition in place of ENABLED <<ProcessStep>>_vars (the step is enabled
\* exactly while the process runs, and it always changes procs).
Scheduled == []<>(procs[1].state # "running") \/ []<><<ProcessStep>>_vars

StepSpec == StepInit /\ [][StepNext]_vars /\ Scheduled

\* the most git commands one invocation runs: SessionStart in a repository on a
\* protected branch with origin, six commands up to the pull, the base name and
\* its NumSuffixes suffixes, the checkout, and three commands for the context
MaxGitCommands == 6 + (1 + NumSuffixes) + 1 + 3

\* no call site of the handler runs its command twice
NoRetry(q) == \A i, j \in 1..Len(q.cmds) : q.cmds[i].site = q.cmds[j].site => i = j

\* C31: every handler invocation terminates under every pattern of git failures:
\* every git command returns (with success or failure), no call site runs its
\* command a second time, one invocation runs at most MaxGitCommands commands
\* (the branch-suffix search is the only loop, of at most 26 iterations), and a
\* started process eventually exits, with exactly one JSON object on standard
\* output whenever its exit code is 0.
C31_EveryInvocationTerminates ==
    /\ [](\A p \in DOMAIN procs :
            /\ Len(procs[p].cmds) <= MaxGitCommands
            /\ NoRetry(procs[p])
            /\ (procs[p].state = "done" /\ procs[p].exit = 0) => Len(procs[p].stdout) = 1)
    /\ \A p \in {1} : (procs[p].state = "running") ~> (procs[p].state = "done")

\* a SessionStart that searched all 26 suffixes, had a git command fail, and exited
\* with its result
C31_LongestRunEnds ==
    /\ procs[1].state = "done"
    /\ Len(procs[1].cmds) = MaxGitCommands
    /\ procs[1].fail # {}
    /\ \E i \in 1..Len(procs[1].cmds) : ~procs[1].cmds[i].ok /\ procs[1].cmds[i].site \in procs[1].fail
    /\ procs[1].exit = 0 /\ Len(procs[1].stdout) = 1

(***************************************************************************)
(* Two hook processes at the same time on one repository: the hosting      *)
(* agent fires hooks of several sessions (or of one session's tools)       *)
(* without waiting, and git-session.js takes no lock.                      *)
(***************************************************************************)
Racers == {1, 2}

RaceRepos ==
    {ExistingRepo("main", {}, {OriginText}, {}, {}),
     ExistingRepo("feature", {}, {OriginText}, {"b.txt"}, {}),
     ExistingRepo("feature", {}, {}, {"b.txt"}, {"a.txt"})}

RaceInit ==
    /\ repo \in RaceRepos
    /\ now = StartClock
    /\ last = NoInvocation
    /\ history = <<>>
    /\ edits = 0
    /\ disk = NoFile
    /\ mem = NoMemory
    /\ home = NoHome
    /\ procs = [p \in Racers |-> IdleProc]

RaceStdins == {Object(Absent, Absent, "Edit", <<>>, "/tmp/repo/src/a.txt")}

RacingSessionStart ==
    \E p \in Racers : Launch(p, {"--session-start"}, {DefaultConfig}, RaceStdins, 0)
RacingSessionEnd ==
    \E p \in Racers : Launch(p, {"--session-end"}, {DefaultConfig}, RaceStdins, 0)
RacingPreEdit ==
    \E p \in Racers : Launch(p, {"--pre-edit"}, {DefaultConfig}, RaceStdins, 0)
RacingStep == \E p \in Racers : Step(p)

RaceNext ==
    \/ RacingSessionStart
    \/ RacingSessionEnd
    \/ RacingPreEdit
    \/ RacingStep

RaceSpec == RaceInit /\ [][RaceNext]_vars

\* process p writes its result and exits in this step
Exits(p) == procs[p].state = "running" /\ procs'[p].state = "done"

\* the status command of SessionEnd's change check answered with changes
SawChanges(q) ==
    \E i \in 1..Len(q.cmds) :
        q.cmds[i].site = "e_status" /\ q.seen[i].success /\ q.seen[i].output # {}

\* C36: when SessionEnd starts on a dirty tree on a non-protected branch with
\* auto-push enabled and an origin remote, and no git command of it fails for
\* an outside reason, then when it terminates the pending changes are
\* committed (the tree is clean) and it has pushed the branch, also when a
\* PreEdit checkpoint runs at the same time on the same repository.
C36_EndCommitsAndPushesUnderRace ==
    [][\A p \in Racers :
          (/\ Exits(p)
           /\ procs'[p].args = {"--session-end"}
           /\ procs'[p].fail = {}
           /\ procs'[p].CONFIG.autoPush
           /\ procs'[p].dirty /\ SawChanges(procs'[p])
           /\ OriginText \in repo.remotes
           /\ repo.head \notin procs'[p].CONFIG.protectedBranches)
          => /\ StatusLines(repo') = {}
             /\ SiteOk(procs'[p], "e_commit")
             /\ SiteOk(procs'[p], "e_push")
      ]_vars

\* the parts of the message of q that begin with `first`
PartsOf(q, first) == {i \in 1..Len(Message(q)) : Message(q)[i][1] = first}

\* C37: when a SessionStart message says `Created working branch 'X' from 'Y'`,
\* the `Branch:` line of the same message names X and HEAD is on X when the
\* handler terminates, also when a second SessionStart runs at the same time on
\* the same repository.
C37_CreatedBranchIsActiveUnderRace ==
    [][\A p \in Racers :
          (/\ Exits(p)
           /\ procs'[p].args = {"--session-start"}
           /\ procs'[p].exit = 0 /\ Len(procs'[p].stdout) = 1)
          => \A i \in PartsOf(procs'[p], "Created working branch") :
                /\ \E j \in PartsOf(procs'[p], "Branch:") :
                      Message(procs'[p])[j][2] = Message(procs'[p])[i][2]
                /\ repo'.head = Message(procs'[p])[i][2]
      ]_vars

(***************************************************************************)
(* One whole session on a repository that starts clean on a protected      *)
(* branch: SessionStart, then PreEdit checkpoints, then SessionEnd, each   *)
(* its own process run after the one before has exited, with the agent's   *)
(* edits in between.  history keeps what each process did.                 *)
(***************************************************************************)
MaxSequence == 3

SequenceRepos ==
    {ExistingRepo("main", sessions, remotes, {}, {}) :
        sessions \in {SessionNames(0), SessionNames(1), SessionNames(NumSuffixes + 1)},
        remotes \in {{}, {OriginText}}}

SequenceInit ==
    /\ repo \in SequenceRepos
    /\ now = StartClock
    /\ last = NoInvocation
    /\ history = <<>>
    /\ edits = 0
    /\ disk = NoFile
    /\ mem = NoMemory
    /\ home = NoHome
    /\ procs = NoProcs

Ended == Len(history) >= 1 /\ history[Len(history)].args = {"--session-end"}

Sequenced(args, stdins) ==
    /\ Len(history) < MaxSequence
    /\ ~Ended
    /\ \E stdin \in stdins, rnd \in RandomSuffixes :
         LET Run(F) == Main(args, DefaultConfig, stdin, repo, F, now, rnd)
         IN  \E fail \in FailChoices(Run, MaxFail) :
                \E res \in {Run(fail)} :
                    /\ repo' = res.repo
                    /\ history' = Append(history, [args |-> args, fail |-> fail,
                                                  cmds |-> res.cmds, exit |-> res.exit,
                                                  head |-> res.repo.head])
    /\ edits' = 0
    /\ UNCHANGED <<now, last, disk, mem, home, procs>>

FirstStart == history = <<>> /\ Sequenced({"--session-start"}, SessionPayloads)
NextEdit == history # <<>> /\ Sequenced({"--pre-edit"}, EditPayloads)
LastEnd == history # <<>> /\ Sequenced({"--session-end"}, SessionPayloads)
AgentEdit == history # <<>> /\ ~Ended /\ UserEdit

SequenceNext ==
    \/ FirstStart
    \/ NextEdit
    \/ LastEnd
    \/ AgentEdit

SequenceSpec == SequenceInit /\ [][SequenceNext]_vars

\* the commits of a checkpoint or of a session end
SessionCommits == {"Checkpoint before editing", "Claude session end:"}

\* C35: in a sequence SessionStart, PreEdit checkpoints, SessionEnd run one after
\* another on an existing repository that starts clean on a protected branch, if
\* the checkout of the working branch in SessionStart succeeded, then no
\* checkpoint commit and no session-end commit is on a protected branch, every
\* later process leaves HEAD off the protected branches, and no push names a
\* protected branch.
C35_SessionStaysOffProtected ==
    (history # <<>> /\ SiteOk(history[1], "s_checkout")) =>
       /\ \A b \in DOMAIN repo.commits \cap DefaultConfig.protectedBranches :
             \A i \in 1..Len(repo.commits[b]) : repo.commits[b][i].msg[1] \notin SessionCommits
       /\ \A k \in 1..Len(history) :
             /\ history[k].head \notin DefaultConfig.protectedBranches
             /\ \A i \in 1..Len(history[k].cmds) :
                   history[k].cmds[i].cmd = "push -u origin"
                      => history[k].cmds[i].arg \notin DefaultConfig.protectedBranches

\* a session whose working branch was created, with a checkpoint commit and a
\* session-end commit that was pushed
C35_WholeSessionOnWorkingBranch ==
    /\ Len(history) = 3
    /\ SiteOk(history[1], "s_checkout")
    /\ history[2].args = {"--pre-edit"} /\ SiteOk(history[2], "p_commit")
    /\ history[3].args = {"--session-end"} /\ SiteOk(history[3], "e_commit")
    /\ SiteOk(history[3], "e_push")
    /\ \E i \in 1..Len(repo.commits[repo.head]) :
          repo.commits[repo.head][i].msg[1] = "Checkpoint before editing"

\* the requests the running hook process made
OwnRequests == {r \in mem.issued : r.run = mem.runs}

\* C33: the agent-memory session-start hook, given an event object or
\* unreadable input, emits exactly one JSON object on standard output and exits
\* 0 for every outcome and every ordering of the callbacks of its requests
\* (response end with any body, connection error, timeout followed by the error
\* of the destroyed request): nothing is written while it waits, it eventually
\* exits, the object carries the MCP usage hint also when the server is
\* unreachable, and for the reason "clear" the object is {} and no request is
\* issued.
C33_SessionStartEmitsOnce ==
    /\ [](mem.hook = "session-start" =>
            /\ mem.alive => mem.stdout = <<>>
            /\ ~mem.alive =>
                  /\ Len(mem.stdout) = 1 /\ mem.exit = 0
                  /\ IF mem.reason = "clear"
                     THEN mem.stdout[1] = EmptyJson /\ OwnRequests = {}
                     ELSE mem.stdout[1].systemMessage[1] = MCP_HINT)
    /\ (mem.hook = "session-start" /\ mem.alive) ~> ~mem.alive

\* the server is down, the POST timed out and was destroyed, then the timeout
\* of the observations request destroyed it too and wrote the hint
C33_TimeoutsWithServerDown ==
    /\ mem.hook = "session-start" /\ ~mem.alive /\ ~mem.up
    /\ \E r, s \in mem.destroyed : r.method = "POST" /\ s.method = "GET"
    /\ mem.stdout = <<[systemMessage |-> <<MCP_HINT>>]>>

====
